---- MODULE Spec2Model ----
(***************************************************************************)
(* State-machine model of the interactive prompt engine of pgdev           *)
(* (src/src/utils/prompt.ts): the menu selector `ask`, the dashboard       *)
(* `askDashboard`, the raw line editor `readLineRaw` with its path         *)
(* completer, and the filter grid `askMultiSelect`.                        *)
(*                                                                         *)
(* One behaviour is one call of one primitive.  `prim` and `input` hold    *)
(* the call (its arguments and the terminal it runs on); the other         *)
(* variables are the locals of the running call, the terminal's raw-mode   *)
(* flag and cursor row, and the way the call ended.                        *)
(*                                                                         *)
(* Conventions.  Indices (selected, cursor, selectIndex, ...) are 0-based  *)
(* as in the source; sequences are 1-based, so options[i] of the source is *)
(* options[i + 1] here.  A text that the code only ever splits at "\n" (a  *)
(* help text, the status text) is held as the sequence of its lines: the   *)
(* absent text is << >>, the empty string is << "" >>.  A text the code    *)
(* slices (buffer, filter, file names, items) is a sequence of characters. *)
(* A key is the token one readKey() call returns, named by its bytes.      *)
(***************************************************************************)
EXTENDS Integers, Sequences, FiniteSets, TLC

\* ------------------------------------------------------------------ bounds
\* most options a caller passes to ask (the synthetic last one comes on top)
MaxOptions == 2
\* most lines of one help text or of the status text
MaxHelpLines == 2

\* ------------------------------------------------------------------ keys
KeyUp        == {"ESC[A", "ESCOA"}
KeyDown      == {"ESC[B", "ESCOB"}
KeyRight     == {"ESC[C", "ESCOC"}
KeyLeft      == {"ESC[D", "ESCOD"}
KeyEnter     == {"CR", "LF"}
KeyBackspace == {"DEL", "BS"}
KeyHome      == {"ESC[H", "ESCOH", "ESC[1~", "SOH"}
KeyEnd       == {"ESC[F", "ESCOF", "ESC[4~", "ENQ"}
KeyDelete    == "ESC[3~"
KeyShiftTab  == "ESC[Z"
KeyTab       == "TAB"
KeyEscape    == "ESC"
KeyCtrlC     == "ETX"
KeyCtrlD     == "EOT"
KeyCtrlU     == "NAK"
\* a key no primitive knows (Page Up)
KeyPageUp    == "ESC[5~"
\* readKey() at end of stream: zero bytes read, the empty string
KeyEof       == ""
\* fallback mode: prompt() at end of stream
LineNull     == "null"

\* return values: every value carries its kind, so values of different calls compare
NoResult  == [kind |-> "none",   val |-> 0]      \* the call has not returned
Index(n)  == [kind |-> "index",  val |-> n]      \* ask: an index, or -1
Null      == [kind |-> "null",   val |-> 0]      \* askDashboard, readLineRaw: null
Item(k)   == [kind |-> "item",   val |-> k]      \* askDashboard: {type: "item", key}
Action(k) == [kind |-> "action", val |-> k]      \* askDashboard: {type: "action", key}
Text(s)   == [kind |-> "text",   val |-> s]      \* readLineRaw: the buffer
Void      == [kind |-> "void",   val |-> 0]      \* askMultiSelect

Max(a, b) == IF a >= b THEN a ELSE b

RECURSIVE MaxOf(_)
\* Math.max(0, ...xs) over a sequence of numbers
MaxOf(xs) == IF xs = << >> THEN 0 ELSE Max(Head(xs), MaxOf(Tail(xs)))

\* parseInt(key, 10) of a token; NaN fails every comparison the code makes
NaN == -1
DigitChars == <<"1", "2", "3", "4", "5", "6", "7", "8", "9">>
ParseInt(s) ==
  IF s = "0" THEN 0
  ELSE IF \E d \in 1..9 : DigitChars[d] = s
       THEN CHOOSE d \in 1..9 : DigitChars[d] = s
       ELSE NaN
\* n >= 1 && n <= count
InRange(n, count) == n # NaN /\ n >= 1 /\ n <= count

\* ------------------------------------------------------------------ state
VARIABLES
  prim,         \* the primitive called: "ask", "dashboard", "line", "multi"
  input,        \* arguments of the call and the terminal (isTTY, columns)
  pc,           \* "start", "loop" (raw key loop), "fallback", "returned", "exited"
  rawMode,      \* process.stdin raw mode
  result,       \* the value returned
  stdinEnded,   \* a read of standard input has returned end of stream
  selected,     \* ask, askDashboard: highlighted row
  cursorRow,    \* terminal row of the cursor, 0 = row where the call began
  lastRender,   \* [top, rows] of the last renderOptions/renderDashboard
  buffer, cursor,                 \* readLineRaw
  compMatches, compPrefix,        \* readLineRaw completion state
  selectCols, savedBuffer, savedCursor,
  selectMode, selectIndex,        \* readLineRaw and askMultiSelect
  filter, filterCursor, filtered, \* askMultiSelect
  selectedSet,                    \* askMultiSelect: the caller's set
  fired,                          \* askMultiSelect: onChange calls of the last key
  changeArg                       \* askMultiSelect: the set the last key passed to onChange

ctlVars   == <<prim, input>>
menuVars  == <<selected, cursorRow, lastRender>>
lineVars  == <<buffer, cursor, compMatches, compPrefix, selectCols, savedBuffer, savedCursor>>
modeVars  == <<selectMode, selectIndex>>
multiVars == <<filter, filterCursor, filtered, selectedSet, fired, changeArg>>
vars == <<prim, input, pc, rawMode, result, stdinEnded, selected, cursorRow, lastRender,
          buffer, cursor, compMatches, compPrefix, selectCols, savedBuffer, savedCursor,
          selectMode, selectIndex, filter, filterCursor, filtered, selectedSet, fired, changeArg>>

\* the locals of the primitives that are not running
IdleLocals ==
  /\ selected = 0 /\ cursorRow = 0 /\ lastRender = [top |-> 0, rows |-> 0]
  /\ buffer = << >> /\ cursor = 0 /\ compMatches = << >> /\ compPrefix = << >>
  /\ selectCols = 1 /\ savedBuffer = << >> /\ savedCursor = 0
  /\ selectMode = FALSE /\ selectIndex = 0
  /\ filter = << >> /\ filterCursor = 0 /\ filtered = << >> /\ fired = 0 /\ changeArg = {}

InitCall ==
  /\ pc = "start" /\ rawMode = FALSE /\ result = NoResult /\ stdinEnded = FALSE
  /\ IdleLocals

\* readKey() in the key loop delivers key; after end of stream every read is empty
Reads(key) ==
  /\ pc = "loop"
  /\ stdinEnded => key = KeyEof
  /\ stdinEnded' = (key = KeyEof)
\* prompt() in a fallback loop delivers line; after end of stream every read is null
ReadsLine(line) ==
  /\ pc = "fallback"
  /\ stdinEnded => line = LineNull
  /\ stdinEnded' = (line = LineNull)

\* ------------------------------------------------------------------ help texts
\* help texts: absent, "", and 1..MaxHelpLines lines
HelpTexts == {<< >>, << "" >>} \cup {[i \in 1..n |-> "h"] : n \in 1..MaxHelpLines}
\* o.help ? ... : ...  (undefined and "" are falsy)
Truthy(text) == text # << >> /\ text # << "" >>
\* o.help ? o.help.split("\n").length : 0
HelpLineCount(text) == IF Truthy(text) THEN Len(text) ELSE 0
\* options[selected].help?.split("\n") ?? []
HelpLines(text) == text

\* ------------------------------------------------------------------ screen
\* process.stdout.write of one renderOptions call, one entry per "\n" written
renderOptions(options, sel, helpHeight) ==
  LET rows     == [i \in 1..Len(options) |-> IF i - 1 = sel THEN "option>" ELSE "option"]
      helpLns  == HelpLines(options[sel + 1].help)
      helpRows == [i \in 1..helpHeight |-> IF i - 1 < Len(helpLns) THEN "help" ELSE "cleared"]
  IN  rows \o <<"blank", "hint">>
           \o (IF helpHeight > 0 THEN <<"blank">> \o helpRows ELSE << >>)

\* clearLines(count): up count, count times "\r ESC[2K \n", up count
clearLines(row, count) == ((row - count) + count) - count

\* ------------------------------------------------------------------ ask
\* the option lists a caller passes
AskOptions ==
  UNION {[1..n -> {[label |-> l, help |-> h] : l \in {"A"}, h \in HelpTexts}] : n \in 0..MaxOptions}

\* allOptions = [...options, {label: isExit ? "Exit" : "Back", ...}]
allOptions ==
  input.options \o <<[label |-> IF input.exit THEN "Exit" ELSE "Back", help |-> << >>]>>
\* a mistaken variant: the index of the last caller option
exitIndexLastOption == Len(input.options) - 1
\* const exitIndex = options.length
exitIndex == Len(input.options)
\* Math.max(0, ...allOptions.map(o => o.help ? o.help.split("\n").length : 0))
askMaxHelpLines == MaxOf([i \in 1..Len(allOptions) |-> HelpLineCount(allOptions[i].help)])
\* a mistaken variant: the blank separator row above the help lines is not counted
helpAreaHeightNoSeparator == askMaxHelpLines
helpAreaHeight == IF askMaxHelpLines > 0 THEN 1 + askMaxHelpLines ELSE 0
askTotalHeight == Len(allOptions) + 2 + helpAreaHeight

\* keys offered to ask
AskKeys == KeyUp \cup KeyDown \cup KeyEnter \cup KeyBackspace
             \cup {KeyCtrlC, KeyEscape, KeyDelete, KeyEof, "0", "1", "2", "3", "4"}
\* lines offered to the fallback loop
AskLines == {LineNull, "x", "0", "1", "2", "3", "4", " 1 ", "2x", "x1"}

InitAsk ==
  /\ prim = "ask"
  /\ input \in [options : AskOptions, exit : BOOLEAN, isTTY : BOOLEAN]
  /\ selectedSet = {}
  /\ InitCall

\* a mistaken variant: the return leaves the try block without setRawMode(false)
AskReturnNoRelease(value, row) ==
  /\ pc' = "returned"
  /\ result' = value
  /\ rawMode' = rawMode
  /\ cursorRow' = IF helpAreaHeight > 0 THEN row - helpAreaHeight ELSE row
\* the finally block of ask, taken by every return from the key loop; row is the row
\* the cursor is on when the return statement runs
AskReturn(value, row) ==
  /\ pc' = "returned"
  /\ result' = value
  /\ rawMode' = FALSE
  /\ cursorRow' = IF helpAreaHeight > 0 THEN row - helpAreaHeight ELSE row

\* ask up to the key loop, or askFallback up to its read loop
AskStart ==
  /\ prim = "ask" /\ pc = "start"
  /\ IF ~input.isTTY
     THEN /\ pc' = "fallback"
          /\ UNCHANGED <<rawMode, menuVars>>
     ELSE LET out == renderOptions(allOptions, 0, askMaxHelpLines) IN
          /\ selected' = 0
          /\ lastRender' = [top |-> cursorRow + 3, rows |-> Len(out)]
          /\ cursorRow' = cursorRow + 3 + Len(out)
          /\ rawMode' = TRUE
          /\ pc' = "loop"
  /\ UNCHANGED <<ctlVars, result, stdinEnded, lineVars, modeVars, multiVars>>

\* clearLines(totalHeight); renderOptions(allOptions, sel, hint, maxHelpLines)
AskRedraw(sel) ==
  LET top == clearLines(cursorRow, askTotalHeight)
      out == renderOptions(allOptions, sel, askMaxHelpLines)
  IN  [top |-> top, rows |-> Len(out)]

AskUp(key) ==
  /\ prim = "ask" /\ Reads(key)
  /\ key \in KeyUp
  /\ IF selected > 0
     THEN /\ selected' = selected - 1
          /\ lastRender' = AskRedraw(selected - 1)
          /\ cursorRow' = lastRender'.top + lastRender'.rows
     ELSE UNCHANGED menuVars
  /\ UNCHANGED <<ctlVars, pc, rawMode, result, lineVars, modeVars, multiVars>>

\* a mistaken variant: Down is allowed one row past the last one
AskDownPastEnd(key) ==
  /\ prim = "ask" /\ Reads(key)
  /\ key \in KeyDown
  /\ IF selected < Len(allOptions)
     THEN /\ selected' = selected + 1
          /\ lastRender' = [top |-> clearLines(cursorRow, askTotalHeight), rows |-> askTotalHeight]
          /\ cursorRow' = lastRender'.top + lastRender'.rows
     ELSE UNCHANGED menuVars
  /\ UNCHANGED <<ctlVars, pc, rawMode, result, lineVars, modeVars, multiVars>>

AskDown(key) ==
  /\ prim = "ask" /\ Reads(key)
  /\ key \in KeyDown
  /\ IF selected < Len(allOptions) - 1
     THEN /\ selected' = selected + 1
          /\ lastRender' = AskRedraw(selected + 1)
          /\ cursorRow' = lastRender'.top + lastRender'.rows
     ELSE UNCHANGED menuVars
  /\ UNCHANGED <<ctlVars, pc, rawMode, result, lineVars, modeVars, multiVars>>

AskEnter(key) ==
  /\ prim = "ask" /\ Reads(key)
  /\ key \in KeyEnter
  /\ AskReturn(Index(IF selected = exitIndex THEN -1 ELSE selected), cursorRow)
  /\ UNCHANGED <<ctlVars, selected, lastRender, lineVars, modeVars, multiVars>>

AskBackspace(key) ==
  /\ prim = "ask" /\ Reads(key)
  /\ key \in KeyBackspace
  /\ AskReturn(Index(-1), cursorRow)
  /\ UNCHANGED <<ctlVars, selected, lastRender, lineVars, modeVars, multiVars>>

\* process.exit(0) inside the try block: the process ends there, the finally block is
\* not run
AskCtrlC(key) ==
  /\ prim = "ask" /\ Reads(key)
  /\ key = KeyCtrlC
  /\ pc' = "exited"
  /\ UNCHANGED <<ctlVars, rawMode, result, menuVars, lineVars, modeVars, multiVars>>

\* a mistaken variant: the number key moves the highlight and waits for Enter
AskNumberHighlights(key) ==
  /\ prim = "ask" /\ Reads(key)
  /\ key \notin KeyUp \cup KeyDown \cup KeyEnter \cup KeyBackspace \cup {KeyCtrlC}
  /\ LET n == ParseInt(key) IN
     IF InRange(n, Len(allOptions))
     THEN /\ selected' = n - 1
          /\ lastRender' = AskRedraw(n - 1)
          /\ cursorRow' = lastRender'.top + lastRender'.rows
          /\ UNCHANGED <<pc, rawMode, result>>
     ELSE UNCHANGED <<pc, rawMode, result, menuVars>>
  /\ UNCHANGED <<ctlVars, lineVars, modeVars, multiVars>>

\* the final else branch: the number key, or a key that does nothing
AskNumber(key) ==
  /\ prim = "ask" /\ Reads(key)
  /\ key \notin KeyUp \cup KeyDown \cup KeyEnter \cup KeyBackspace \cup {KeyCtrlC}
  /\ LET n == ParseInt(key) IN
     IF InRange(n, Len(allOptions))
     THEN IF n - 1 = exitIndex
          THEN /\ AskReturn(Index(-1), cursorRow)
               /\ UNCHANGED <<selected, lastRender>>
          ELSE /\ lastRender' = AskRedraw(n - 1)
               /\ AskReturn(Index(n - 1), lastRender'.top + lastRender'.rows)
               /\ UNCHANGED selected
     ELSE UNCHANGED <<pc, rawMode, result, menuVars>>
  /\ UNCHANGED <<ctlVars, lineVars, modeVars, multiVars>>

\* input.trim() for the lines offered: the spaces around " 1 " go
Trim(line) == IF line = " 1 " THEN "1" ELSE line
\* parseInt(input.trim(), 10) of a line: parseInt reads the digits a text starts with
\* and ignores what follows them ("2x" gives 2, "x1" gives NaN)
parseIntLine(line) ==
  LET text == Trim(line) IN
  IF text = "2x" THEN ParseInt("2") ELSE IF text = "x1" THEN NaN ELSE ParseInt(text)

\* a mistaken variant: the range test has no lower end, so 0 is taken as a choice
AskFallbackLineNoLowerEnd(line) ==
  /\ prim = "ask" /\ ReadsLine(line)
  /\ LET n == parseIntLine(line) IN
     IF line = LineNull
     THEN pc' = "exited" /\ UNCHANGED result
     ELSE IF n # NaN /\ n <= Len(allOptions)
          THEN /\ pc' = "returned"
               /\ result' = Index(IF n - 1 = exitIndex THEN -1 ELSE n - 1)
          ELSE UNCHANGED <<pc, result>>
  /\ UNCHANGED <<ctlVars, rawMode, menuVars, lineVars, modeVars, multiVars>>

\* askFallback: one turn of the while (true) loop around prompt(); at end of stream
\* it calls process.exit(0)
AskFallbackLine(line) ==
  /\ prim = "ask" /\ ReadsLine(line)
  /\ LET n == parseIntLine(line) IN
     IF line = LineNull
     THEN pc' = "exited" /\ UNCHANGED result
     ELSE IF InRange(n, Len(allOptions))
          THEN /\ pc' = "returned"
               /\ result' = Index(IF n - 1 = exitIndex THEN -1 ELSE n - 1)
          ELSE UNCHANGED <<pc, result>>
  /\ UNCHANGED <<ctlVars, rawMode, menuVars, lineVars, modeVars, multiVars>>

AskNext ==
  \/ AskStart
  \/ \E key \in AskKeys :
       \/ AskUp(key) \/ AskDown(key) \/ AskEnter(key) \/ AskBackspace(key)
       \/ AskCtrlC(key) \/ AskNumber(key)
  \/ \E line \in AskLines : AskFallbackLine(line)

\* one turn of the key loop of ask on the key read
AskKeyStep(key) ==
  \/ AskUp(key) \/ AskDown(key) \/ AskEnter(key) \/ AskBackspace(key)
  \/ AskCtrlC(key) \/ AskNumber(key)

\* ------------------------------------------------------------------ askDashboard
\* most sections of one dashboard
MaxSections == 2

\* key.toLowerCase() of a one-character token
Lower(c) ==
  CASE c = "A" -> "a" [] c = "B" -> "b" [] c = "Q" -> "q" [] c = "S" -> "s"
    [] OTHER -> c

\* the items a caller puts on a dashboard: keys that equal a hotkey ("s") or a digit
\* ("1"), help absent, empty, one line, or the longest
DashItemA == [key |-> "s", help |-> << >>]
DashItemB == [key |-> "1", help |-> <<"h">>]
DashItemC == [key |-> "k", help |-> [i \in 1..MaxHelpLines |-> "h"]]
DashItemD == [key |-> "s", help |-> <<"">>]
\* the sections a dashboard is made of: titled and untitled, empty, one or two items
DashSectionPool ==
  { [title |-> "",  items |-> <<DashItemA>>],
    [title |-> "T", items |-> <<DashItemB, DashItemC>>],
    [title |-> "T", items |-> << >>],
    [title |-> "",  items |-> <<DashItemD, DashItemA>>] }
DashSections == UNION {[1..n -> DashSectionPool] : n \in 1..MaxSections}
\* the action lists: none, an upper-case and a digit hotkey, two hotkeys equal but for case
DashActions ==
  { << >>,
    <<[key |-> "S"], [key |-> "1"]>>,
    <<[key |-> "q"], [key |-> "s"], [key |-> "S"]>> }
\* opts: selected absent (""), an item's key, no item's key; status absent, "", lines
DashOpts ==
  { [selected |-> "",   status |-> << >>],
    [selected |-> "k",  status |-> <<"">>],
    [selected |-> "zz", status |-> <<"ok">>],
    [selected |-> "s",  status |-> [i \in 1..MaxHelpLines |-> "ok"]] }

RECURSIVE FlatItems(_)
\* sections.flatMap(s => s.items)
FlatItems(sections) ==
  IF sections = << >> THEN << >> ELSE Head(sections).items \o FlatItems(Tail(sections))
allItems == FlatItems(input.sections)

\* new Map(actions.map(a => [a.key.toLowerCase(), a.key])): a later entry replaces an
\* earlier one with the same lower-case key
actionKeysHas(lower) == \E i \in 1..Len(input.actions) : Lower(input.actions[i].key) = lower
actionKeysGet(lower) ==
  LET last == CHOOSE i \in 1..Len(input.actions) :
                /\ Lower(input.actions[i].key) = lower
                /\ \A j \in (i + 1)..Len(input.actions) : Lower(input.actions[j].key) # lower
  IN  input.actions[last].key

dashMaxHelpLines == MaxOf([i \in 1..Len(allItems) |-> HelpLineCount(allItems[i].help)])
\* opts?.status ? opts.status.split("\n") : []
statusLines == IF Truthy(input.opts.status) THEN input.opts.status ELSE << >>

RECURSIVE SectionRows(_, _, _, _)
\* the loop over the sections in renderDashboard; s counts the sections, 0-based, and
\* itemIndex the items written so far
SectionRows(sections, s, itemIndex, sel) ==
  IF s >= Len(sections) THEN << >>
  ELSE LET sec == sections[s + 1] IN
       (IF s > 0 THEN <<"blank">> ELSE << >>)
       \o (IF sec.title # "" THEN <<"title", "divider">> ELSE << >>)
       \o [i \in 1..Len(sec.items) |->
             IF itemIndex + i - 1 = sel THEN "item>" ELSE "item"]
       \o SectionRows(sections, s + 1, itemIndex + Len(sec.items), sel)

\* process.stdout.write of one renderDashboard call, one entry per "\n" written
renderDashboard(sections, actions, items, sel, maxHelpLines, status) ==
  LET helpLns  == IF sel + 1 \in 1..Len(items) THEN HelpLines(items[sel + 1].help) ELSE << >>
      helpRows == [i \in 1..maxHelpLines |-> IF i - 1 < Len(helpLns) THEN "help" ELSE "cleared"]
  IN  SectionRows(sections, 0, 0, sel)
      \o <<"blank", "divider">>
      \o [i \in 1..Len(actions) |-> "action"]
      \o (IF maxHelpLines > 0 THEN <<"blank", "divider">> \o helpRows ELSE << >>)
      \o (IF Len(status) > 0 THEN <<"blank">> \o [i \in 1..Len(status) |-> "status"] ELSE << >>)

RECURSIVE SectionHeight(_, _)
\* the loop over the sections in getDashboardHeight
SectionHeight(sections, s) ==
  IF s >= Len(sections) THEN 0
  ELSE (IF s > 0 THEN 1 ELSE 0)
       + (IF sections[s + 1].title # "" THEN 2 ELSE 0)
       + Len(sections[s + 1].items)
       + SectionHeight(sections, s + 1)

\* a mistaken variant: the blank row above the status lines is not counted
getDashboardHeightNoStatusGap(sections, actions, maxHelpLines, statusLineCount) ==
  SectionHeight(sections, 0) + 2 + Len(actions)
    + (IF maxHelpLines > 0 THEN 2 + maxHelpLines ELSE 0)
    + statusLineCount

getDashboardHeight(sections, actions, maxHelpLines, statusLineCount) ==
  SectionHeight(sections, 0) + 2 + Len(actions)
    + (IF maxHelpLines > 0 THEN 2 + maxHelpLines ELSE 0)
    + (IF statusLineCount > 0 THEN 1 + statusLineCount ELSE 0)

bodyHeight == getDashboardHeight(input.sections, input.actions, dashMaxHelpLines, Len(statusLines))
titleHeight == 3
dashTotalHeight == titleHeight + bodyHeight

\* keys offered to askDashboard
DashKeys == KeyUp \cup KeyDown \cup KeyEnter \cup KeyBackspace
              \cup {KeyEscape, KeyCtrlC, KeyDelete, KeyEof, "s", "S", "q", "1", "2", "9"}
\* lines offered to the fallback loop
DashLines == {LineNull, "x", "s", "S", "1", "2", "9"}

InitDashboard ==
  /\ prim = "dashboard"
  /\ input \in [sections : DashSections, actions : DashActions, opts : DashOpts,
                isTTY : BOOLEAN]
  /\ selectedSet = {}
  /\ InitCall

\* a mistaken variant: the last item with the key opts.selected
dashInitialSelectedLast ==
  LET hits == {i \in 1..Len(allItems) : allItems[i].key = input.opts.selected} IN
  IF input.opts.selected # "" /\ hits # {}
  THEN (CHOOSE i \in hits : \A j \in hits : i >= j) - 1
  ELSE 0

\* allItems.findIndex(i => i.key === opts.selected), taken when opts.selected is truthy
\* and an item has that key
dashInitialSelected ==
  LET hits == {i \in 1..Len(allItems) : allItems[i].key = input.opts.selected} IN
  IF input.opts.selected # "" /\ hits # {}
  THEN (CHOOSE i \in hits : \A j \in hits : i <= j) - 1
  ELSE 0

\* the finally block of askDashboard, taken by every return from the key loop; row is
\* the row the cursor is on when the return statement runs
DashReturn(value, row) ==
  /\ pc' = "returned"
  /\ result' = value
  /\ rawMode' = FALSE
  /\ cursorRow' = clearLines(row, dashTotalHeight)

\* askDashboard up to its fallback loop or its key loop
DashStart ==
  /\ prim = "dashboard" /\ pc = "start"
  /\ IF Len(allItems) = 0
     THEN /\ pc' = "returned" /\ result' = Null
          /\ UNCHANGED <<rawMode, menuVars>>
     ELSE LET sel == dashInitialSelected
              out == renderDashboard(input.sections, input.actions, allItems, sel,
                                     dashMaxHelpLines, statusLines)
          IN  /\ selected' = sel
              /\ lastRender' = [top |-> cursorRow + 3, rows |-> Len(out)]
              /\ cursorRow' = cursorRow + 3 + Len(out)
              /\ rawMode' = input.isTTY
              /\ pc' = IF input.isTTY THEN "loop" ELSE "fallback"
              /\ UNCHANGED result
  /\ UNCHANGED <<ctlVars, stdinEnded, lineVars, modeVars, multiVars>>

\* clearLines(bodyHeight); renderDashboard(..., sel, ...)
DashRedraw(sel) ==
  LET top == clearLines(cursorRow, bodyHeight)
      out == renderDashboard(input.sections, input.actions, allItems, sel,
                             dashMaxHelpLines, statusLines)
  IN  [top |-> top, rows |-> Len(out)]

DashUp(key) ==
  /\ prim = "dashboard" /\ Reads(key)
  /\ key \in KeyUp
  /\ IF selected > 0
     THEN /\ selected' = selected - 1
          /\ lastRender' = DashRedraw(selected - 1)
          /\ cursorRow' = lastRender'.top + lastRender'.rows
     ELSE UNCHANGED menuVars
  /\ UNCHANGED <<ctlVars, pc, rawMode, result, lineVars, modeVars, multiVars>>

DashDown(key) ==
  /\ prim = "dashboard" /\ Reads(key)
  /\ key \in KeyDown
  /\ IF selected < Len(allItems) - 1
     THEN /\ selected' = selected + 1
          /\ lastRender' = DashRedraw(selected + 1)
          /\ cursorRow' = lastRender'.top + lastRender'.rows
     ELSE UNCHANGED menuVars
  /\ UNCHANGED <<ctlVars, pc, rawMode, result, lineVars, modeVars, multiVars>>

DashEnter(key) ==
  /\ prim = "dashboard" /\ Reads(key)
  /\ key \in KeyEnter
  /\ DashReturn(Item(allItems[selected + 1].key), cursorRow)
  /\ UNCHANGED <<ctlVars, selected, lastRender, lineVars, modeVars, multiVars>>

\* Escape and Backspace
DashCancel(key) ==
  /\ prim = "dashboard" /\ Reads(key)
  /\ key \in {KeyEscape} \cup KeyBackspace
  /\ DashReturn(Null, cursorRow)
  /\ UNCHANGED <<ctlVars, selected, lastRender, lineVars, modeVars, multiVars>>

\* process.exit(0) inside the try block: the finally block is not run
DashCtrlC(key) ==
  /\ prim = "dashboard" /\ Reads(key)
  /\ key = KeyCtrlC
  /\ pc' = "exited"
  /\ UNCHANGED <<ctlVars, rawMode, result, menuVars, lineVars, modeVars, multiVars>>

\* a mistaken variant: the number key is tried before the actions' hotkeys
DashHotkeyDigitFirst(key) ==
  /\ prim = "dashboard" /\ Reads(key)
  /\ key \notin KeyUp \cup KeyDown \cup KeyEnter \cup KeyBackspace \cup {KeyEscape, KeyCtrlC}
  /\ LET lower == Lower(key)
         n     == ParseInt(key)
     IN  IF InRange(n, Len(allItems))
         THEN /\ selected' = n - 1
              /\ lastRender' = DashRedraw(n - 1)
              /\ DashReturn(Item(allItems[n].key), lastRender'.top + lastRender'.rows)
         ELSE IF actionKeysHas(lower)
              THEN /\ DashReturn(Action(actionKeysGet(lower)), cursorRow)
                   /\ UNCHANGED <<selected, lastRender>>
              ELSE UNCHANGED <<pc, rawMode, result, menuVars>>
  /\ UNCHANGED <<ctlVars, lineVars, modeVars, multiVars>>

\* the final else branch: an action's hotkey, else a number key, else nothing
DashHotkey(key) ==
  /\ prim = "dashboard" /\ Reads(key)
  /\ key \notin KeyUp \cup KeyDown \cup KeyEnter \cup KeyBackspace \cup {KeyEscape, KeyCtrlC}
  /\ LET lower == Lower(key)
         n     == ParseInt(key)
     IN  IF actionKeysHas(lower)
         THEN /\ DashReturn(Action(actionKeysGet(lower)), cursorRow)
              /\ UNCHANGED <<selected, lastRender>>
         ELSE IF InRange(n, Len(allItems))
              THEN /\ selected' = n - 1
                   /\ lastRender' = DashRedraw(n - 1)
                   /\ DashReturn(Item(allItems[n].key), lastRender'.top + lastRender'.rows)
              ELSE UNCHANGED <<pc, rawMode, result, menuVars>>
  /\ UNCHANGED <<ctlVars, lineVars, modeVars, multiVars>>

\* the non-TTY loop of askDashboard: one turn around prompt()
DashFallbackLine(line) ==
  /\ prim = "dashboard" /\ ReadsLine(line)
  /\ LET trimmed == Lower(line)
         n       == ParseInt(trimmed)
     IN  IF line = LineNull
         THEN pc' = "returned" /\ result' = Null
         ELSE IF actionKeysHas(trimmed)
              THEN pc' = "returned" /\ result' = Action(actionKeysGet(trimmed))
              ELSE IF InRange(n, Len(allItems))
                   THEN pc' = "returned" /\ result' = Item(allItems[n].key)
                   ELSE UNCHANGED <<pc, result>>
  /\ UNCHANGED <<ctlVars, rawMode, menuVars, lineVars, modeVars, multiVars>>

DashNext ==
  \/ DashStart
  \/ \E key \in DashKeys :
       \/ DashUp(key) \/ DashDown(key) \/ DashEnter(key) \/ DashCancel(key)
       \/ DashCtrlC(key) \/ DashHotkey(key)
  \/ \E line \in DashLines : DashFallbackLine(line)

\* one turn of the key loop of askDashboard on the key read
DashKeyStep(key) ==
  \/ DashUp(key) \/ DashDown(key) \/ DashEnter(key) \/ DashCancel(key)
  \/ DashCtrlC(key) \/ DashHotkey(key)

\* ------------------------------------------------------------------ path completion
\* longest buffer the user types or a Tab completes to (a grid selection may be longer)
MaxBuffer == 2

\* s.slice(from, to) of a character sequence, 0-based, to exclusive
Slice(s, from, to) == SubSeq(s, from + 1, to)
\* s.startsWith(p)
StartsWith(s, p) == Len(p) <= Len(s) /\ SubSeq(s, 1, Len(p)) = p
\* input.includes("/")
HasSlash(s) == \E i \in 1..Len(s) : s[i] = "/"

\* the directory tree completion runs on: the working directory holds the files ca
\* and cb and the directory c; c holds the file a and the directory b, which cannot
\* be read
DirCwd == { [name |-> <<"c", "a">>, isDir |-> FALSE],
            [name |-> <<"c", "b">>, isDir |-> FALSE],
            [name |-> <<"c">>,      isDir |-> TRUE] }
DirC   == { [name |-> <<"a">>, isDir |-> FALSE],
            [name |-> <<"b">>, isDir |-> TRUE] }

RECURSIVE Components(_, _)
\* the names between the slashes of a path; cur is the name being read
Components(path, cur) ==
  IF path = << >> THEN (IF cur = << >> THEN << >> ELSE <<cur>>)
  ELSE IF Head(path) = "/"
       THEN (IF cur = << >> THEN << >> ELSE <<cur>>) \o Components(Tail(path), << >>)
       ELSE Components(Tail(path), Append(cur, Head(path)))

\* readdirSync(resolve(process.cwd(), dir), {withFileTypes: true}): ok is FALSE when
\* it throws (no such directory, not a directory)
readdirSync(dir) ==
  LET names    == SelectSeq(Components(dir, << >>), LAMBDA c : c # <<".">>)
      absolute == dir # << >> /\ dir[1] = "/"
  IN  IF absolute
      THEN (IF names = << >> THEN [ok |-> TRUE, entries |-> {}]
                             ELSE [ok |-> FALSE, entries |-> {}])
      ELSE IF names = << >> THEN [ok |-> TRUE, entries |-> DirCwd]
      ELSE IF names = << <<"c">> >> THEN [ok |-> TRUE, entries |-> DirC]
      ELSE [ok |-> FALSE, entries |-> {}]

\* the index of the last "/" of a path, 0 when it has none (1-based)
LastSlash(s) ==
  IF HasSlash(s) THEN CHOOSE i \in 1..Len(s) : s[i] = "/" /\ \A j \in (i + 1)..Len(s) : s[j] # "/"
  ELSE 0
\* dirname(input) of node:path, for an input that does not end in "/"
dirname(s) ==
  LET i == LastSlash(s) IN
  IF i = 0 THEN <<".">>
  ELSE IF i = 1 THEN <<"/">>
  ELSE IF i = 2 /\ s[1] = "/" THEN <<"/", "/">>
  ELSE SubSeq(s, 1, i - 1)
\* basename(input) of node:path, for an input that does not end in "/"
basename(s) == SubSeq(s, LastSlash(s) + 1, Len(s))

\* a.name.localeCompare(b.name) < 0 for names of lower-case letters
CharRank(c) == CHOOSE i \in 1..5 : <<"a", "b", "c", "d", "e">>[i] = c
RECURSIVE NameLess(_, _)
NameLess(a, b) ==
  IF b = << >> THEN FALSE
  ELSE IF a = << >> THEN TRUE
  ELSE IF Head(a) # Head(b) THEN CharRank(Head(a)) < CharRank(Head(b))
  ELSE NameLess(Tail(a), Tail(b))
\* the comparator of the sort in pathComplete: directories first, then by name
EntryBefore(a, b) ==
  IF a.isDir # b.isDir THEN a.isDir ELSE NameLess(a.name, b.name)

RECURSIVE SortEntries(_)
\* entries.sort(...) of a set of directory entries
SortEntries(entries) ==
  IF entries = {} THEN << >>
  ELSE LET first == CHOOSE e \in entries : \A o \in entries \ {e} : EntryBefore(e, o)
       IN  <<first>> \o SortEntries(entries \ {first})

RECURSIVE ShrinkTo(_, _)
\* while (common.length > 0 && !name.startsWith(common)) common = common.slice(0, -1)
ShrinkTo(common, name) ==
  IF Len(common) > 0 /\ ~StartsWith(name, common)
  THEN ShrinkTo(SubSeq(common, 1, Len(common) - 1), name)
  ELSE common
RECURSIVE CommonPrefix(_, _, _)
\* the for loop over filtered[1..] that shrinks common
CommonPrefix(common, filteredEntries, i) ==
  IF i > Len(filteredEntries) THEN common
  ELSE CommonPrefix(ShrinkTo(common, filteredEntries[i].name), filteredEntries, i + 1)

\* a completer's null
NoCompletion == [found |-> FALSE, matches |-> << >>, completed |-> << >>, prefix |-> << >>]

pathComplete(text, dirOnly) ==
  LET dir       == IF text = << >> THEN <<".">>
                   ELSE IF text[Len(text)] = "/" THEN text
                   ELSE dirname(text)
      prefix    == IF text = << >> \/ text[Len(text)] = "/" THEN << >> ELSE basename(text)
      dirPrefix == IF text = << >> THEN << >>
                   ELSE IF text[Len(text)] = "/" THEN text
                   ELSE IF dir = <<".">> /\ ~HasSlash(text) THEN << >>
                   ELSE dir \o <<"/">>
      listing   == readdirSync(dir)
      kept      == SortEntries({e \in listing.entries :
                                  (dirOnly => e.isDir) /\ StartsWith(e.name, prefix)})
      common    == CommonPrefix(kept[1].name, kept, 2)
  IN  IF ~listing.ok \/ kept = << >> THEN NoCompletion
      ELSE [found     |-> TRUE,
            matches   |-> [i \in 1..Len(kept) |->
                             kept[i].name \o (IF kept[i].isDir THEN <<"/">> ELSE << >>)],
            completed |-> dirPrefix \o common
                            \o (IF Len(kept) = 1 /\ kept[1].isDir THEN <<"/">> ELSE << >>),
            prefix    |-> dirPrefix]

dirComplete(text)  == pathComplete(text, TRUE)
fileComplete(text) == pathComplete(text, FALSE)

\* Math.max(...items.map(s => s.length)) of a non-empty list of texts
MaxLen(items) == MaxOf([i \in 1..Len(items) |-> Len(items[i])])
completionGridCols(items, width) ==
  IF Len(items) = 0 THEN 1 ELSE Max(1, (width - 4) \div (MaxLen(items) + 2))

\* ------------------------------------------------------------------ readLineRaw
\* the characters the user types
TypeChars == {"c"}
\* key.length === 1 && key.charCodeAt(0) >= 32
IsPrintable(key) == key \in {"a", "b", "c", "A", "B", " ", "0", "1", "2", "3", "4", "9", "q", "s", "S", "DEL"}
KeyArrows == KeyUp \cup KeyDown \cup KeyLeft \cup KeyRight
\* keys offered to readLineRaw
LineKeys == KeyEnter \cup KeyArrows \cup KeyBackspace \cup KeyHome \cup KeyEnd \cup TypeChars
              \cup {KeyCtrlC, KeyCtrlD, KeyCtrlU, KeyEscape, KeyTab, KeyShiftTab, KeyDelete,
                    KeyPageUp, KeyEof}

\* lines offered to prompt() without a terminal
LineLines == {LineNull, "", "a"}

\* the calls: askPath (directory completer) and askValue with path (file completer);
\* stdout.columns unknown (0) or 12; with and without a terminal
LineCalls ==
  {[completer |-> c.completer, columns |-> c.columns, isTTY |-> t] :
     c \in { [completer |-> "dir",  columns |-> 0],
             [completer |-> "file", columns |-> 0],
             [completer |-> "file", columns |-> 12] },
     t \in BOOLEAN}

InitLine ==
  /\ prim = "line"
  /\ input \in LineCalls
  /\ selectedSet = {}
  /\ InitCall

\* process.stdout.columns || 80
termCols == IF input.columns = 0 THEN 80 ELSE input.columns
completer(text) == IF input.completer = "dir" THEN dirComplete(text) ELSE fileComplete(text)

\* a mistaken variant: raw mode and the key loop whatever standard input is
LineStartRawFirst ==
  /\ prim = "line" /\ pc = "start"
  /\ pc' = "loop"
  /\ rawMode' = TRUE
  /\ UNCHANGED <<ctlVars, result, stdinEnded, menuVars, lineVars, modeVars, multiVars>>

\* readLineRaw up to its key loop; without a terminal it is prompt(promptStr)
LineStart ==
  /\ prim = "line" /\ pc = "start"
  /\ pc' = IF input.isTTY THEN "loop" ELSE "fallback"
  /\ rawMode' = input.isTTY
  /\ UNCHANGED <<ctlVars, result, stdinEnded, menuVars, lineVars, modeVars, multiVars>>

\* return prompt(promptStr): the line typed, or null at end of stream
LineFallbackLine(line) ==
  /\ prim = "line" /\ ReadsLine(line)
  /\ result' = IF line = LineNull THEN Null ELSE Text(IF line = "" THEN << >> ELSE <<line>>)
  /\ pc' = "returned"
  /\ UNCHANGED <<ctlVars, rawMode, menuVars, lineVars, modeVars, multiVars>>

\* the loop goes on to the next readKey()
LineContinue == UNCHANGED <<pc, rawMode, result>>
\* return value, through the finally block
LineReturn(value) == pc' = "returned" /\ result' = value /\ rawMode' = FALSE

clearComp ==
  /\ compMatches' = << >>
  /\ compPrefix' = << >>
  /\ selectMode' = FALSE
  /\ selectIndex' = 0

\* a mistaken variant: the highlighted entry is taken without the completion prefix
applySelectionNoPrefix(idx) ==
  /\ buffer' = compMatches[idx + 1]
  /\ cursor' = Len(compMatches[idx + 1])
  /\ selectIndex' = idx

\* a mistaken variant: the selection replaces the buffer but the cursor stays
applySelectionKeepsCursor(idx) ==
  /\ selectIndex' = idx
  /\ buffer' = compPrefix \o compMatches[idx + 1]
  /\ cursor' = cursor

\* selectIndex = idx; applySelection(idx)
applySelection(idx) ==
  /\ selectIndex' = idx
  /\ buffer' = compPrefix \o compMatches[idx + 1]
  /\ cursor' = Len(compPrefix \o compMatches[idx + 1])

\* a mistaken variant: the matches of the completer are never stored
storeMatchesNever(found) ==
  UNCHANGED <<compMatches, compPrefix>>
\* a mistaken variant: every completer result is stored, a single match too
storeMatchesAlways(found) ==
  compMatches' = found.matches /\ compPrefix' = found.prefix
\* if (result.matches.length > 1) { compMatches = result.matches; compPrefix = ... }
storeMatches(found) ==
  IF Len(found.matches) > 1
  THEN compMatches' = found.matches /\ compPrefix' = found.prefix
  ELSE UNCHANGED <<compMatches, compPrefix>>

LineEnter(key) ==
  /\ prim = "line" /\ Reads(key)
  /\ key \in KeyEnter
  /\ clearComp
  /\ IF selectMode THEN LineContinue ELSE LineReturn(Text(buffer))
  /\ UNCHANGED <<ctlVars, menuVars, buffer, cursor, selectCols, savedBuffer, savedCursor, multiVars>>

\* clearComp(), render(), then process.exit(0) inside the try block: the finally block
\* is not run
LineCtrlC(key) ==
  /\ prim = "line" /\ Reads(key)
  /\ key = KeyCtrlC
  /\ clearComp
  /\ pc' = "exited"
  /\ UNCHANGED <<ctlVars, rawMode, result, menuVars, buffer, cursor, selectCols,
                 savedBuffer, savedCursor, multiVars>>

\* Ctrl+D on the empty buffer
LineCtrlD(key) ==
  /\ prim = "line" /\ Reads(key)
  /\ key = KeyCtrlD /\ buffer = << >>
  /\ clearComp
  /\ LineReturn(Null)
  /\ UNCHANGED <<ctlVars, menuVars, buffer, cursor, selectCols, savedBuffer, savedCursor, multiVars>>

\* a mistaken variant: Escape in select mode closes the grid and keeps the selection
LineEscapeKeepsSelection(key) ==
  /\ prim = "line" /\ Reads(key)
  /\ key = KeyEscape
  /\ IF selectMode \/ Len(compMatches) > 0
     THEN /\ clearComp
          /\ LineContinue
          /\ UNCHANGED <<buffer, cursor>>
     ELSE /\ LineReturn(Null)
          /\ UNCHANGED <<buffer, cursor, compMatches, compPrefix, modeVars>>
  /\ UNCHANGED <<ctlVars, menuVars, selectCols, savedBuffer, savedCursor, multiVars>>

\* a mistaken variant: Escape in select mode restores the buffer but not the cursor
LineEscapeKeepsCursor(key) ==
  /\ prim = "line" /\ Reads(key)
  /\ key = KeyEscape
  /\ IF selectMode
     THEN /\ buffer' = savedBuffer
          /\ cursor' = cursor
          /\ clearComp
          /\ LineContinue
     ELSE IF Len(compMatches) > 0
     THEN /\ clearComp
          /\ LineContinue
          /\ UNCHANGED <<buffer, cursor>>
     ELSE /\ LineReturn(Null)
          /\ UNCHANGED <<buffer, cursor, compMatches, compPrefix, modeVars>>
  /\ UNCHANGED <<ctlVars, menuVars, selectCols, savedBuffer, savedCursor, multiVars>>

LineEscape(key) ==
  /\ prim = "line" /\ Reads(key)
  /\ key = KeyEscape
  /\ IF selectMode
     THEN /\ buffer' = savedBuffer
          /\ cursor' = savedCursor
          /\ clearComp
          /\ LineContinue
     ELSE IF Len(compMatches) > 0
     THEN /\ clearComp
          /\ LineContinue
          /\ UNCHANGED <<buffer, cursor>>
     ELSE /\ LineReturn(Null)
          /\ UNCHANGED <<buffer, cursor, compMatches, compPrefix, modeVars>>
  /\ UNCHANGED <<ctlVars, menuVars, selectCols, savedBuffer, savedCursor, multiVars>>

\* a mistaken variant: a Tab that finds no completion clears the line
LineTabClearsOnNone(key) ==
  /\ prim = "line" /\ Reads(key)
  /\ key = KeyTab /\ input.completer # "none"
  /\ LineContinue
  /\ IF Len(compMatches) > 1
     THEN IF ~selectMode
          THEN \* second tab: enter select mode (grids whose entries fit the bound)
               /\ \A i \in 1..Len(compMatches) :
                    Len(compPrefix) + Len(compMatches[i]) <= MaxBuffer + 2
               /\ selectMode' = TRUE
               /\ selectCols' = completionGridCols(compMatches, termCols)
               /\ savedBuffer' = buffer
               /\ savedCursor' = cursor
               /\ applySelection(0)
               /\ UNCHANGED <<compMatches, compPrefix>>
          ELSE \* already selecting: next item
               /\ applySelection((selectIndex + 1) % Len(compMatches))
               /\ UNCHANGED <<compMatches, compPrefix, selectMode, selectCols,
                              savedBuffer, savedCursor>>
     ELSE \* first tab: run the completer
          LET found == completer(Slice(buffer, 0, cursor))
              after == Slice(buffer, cursor, Len(buffer))
          IN  IF found.found
              THEN /\ Len(found.completed \o after) <= Max(MaxBuffer, Len(buffer))
                   /\ buffer' = found.completed \o after
                   /\ cursor' = Len(found.completed)
                   /\ storeMatches(found)
                   /\ UNCHANGED <<modeVars, selectCols, savedBuffer, savedCursor>>
              ELSE /\ buffer' = << >>
                   /\ cursor' = 0
                   /\ UNCHANGED <<compMatches, compPrefix, selectCols, savedBuffer,
                                  savedCursor, modeVars>>
  /\ UNCHANGED <<ctlVars, menuVars, multiVars>>

\* Tab with a completer: complete, open the grid, or step through it
LineTab(key) ==
  /\ prim = "line" /\ Reads(key)
  /\ key = KeyTab /\ input.completer # "none"
  /\ LineContinue
  /\ IF Len(compMatches) > 1
     THEN IF ~selectMode
          THEN \* second tab: enter select mode (grids whose entries fit the bound)
               /\ \A i \in 1..Len(compMatches) :
                    Len(compPrefix) + Len(compMatches[i]) <= MaxBuffer + 2
               /\ selectMode' = TRUE
               /\ selectCols' = completionGridCols(compMatches, termCols)
               /\ savedBuffer' = buffer
               /\ savedCursor' = cursor
               /\ applySelection(0)
               /\ UNCHANGED <<compMatches, compPrefix>>
          ELSE \* already selecting: next item
               /\ applySelection((selectIndex + 1) % Len(compMatches))
               /\ UNCHANGED <<compMatches, compPrefix, selectMode, selectCols,
                              savedBuffer, savedCursor>>
     ELSE \* first tab: run the completer
          LET found == completer(Slice(buffer, 0, cursor))
              after == Slice(buffer, cursor, Len(buffer))
          IN  IF found.found
              THEN /\ Len(found.completed \o after) <= Max(MaxBuffer, Len(buffer))
                   /\ buffer' = found.completed \o after
                   /\ cursor' = Len(found.completed)
                   /\ storeMatches(found)
                   /\ UNCHANGED <<modeVars, selectCols, savedBuffer, savedCursor>>
              ELSE UNCHANGED <<lineVars, modeVars>>
  /\ UNCHANGED <<ctlVars, menuVars, multiVars>>

LineShiftTab(key) ==
  /\ prim = "line" /\ Reads(key)
  /\ key = KeyShiftTab /\ selectMode
  /\ LineContinue
  /\ applySelection((selectIndex - 1 + Len(compMatches)) % Len(compMatches))
  /\ UNCHANGED <<ctlVars, menuVars, compMatches, compPrefix, selectMode, selectCols,
                 savedBuffer, savedCursor, multiVars>>

\* while (last + selectCols < count) last += selectCols, from last = col
RECURSIVE LastInColumn(_, _, _)
LastInColumn(last, ncols, count) ==
  IF last + ncols < count THEN LastInColumn(last + ncols, ncols, count) ELSE last

\* a mistaken variant: Down past the last row goes to the first entry of the grid
GridMoveDownToFirst(key, index, ncols, count) ==
  IF key \in KeyRight THEN (index + 1) % count
  ELSE IF key \in KeyLeft THEN (index - 1 + count) % count
  ELSE IF key \in KeyDown
       THEN (IF index + ncols < count THEN index + ncols ELSE 0)
  ELSE (IF index - ncols >= 0 THEN index - ncols ELSE LastInColumn(index % ncols, ncols, count))

\* selectIndex after an arrow key on a grid of count entries in cols columns
GridMove(key, index, ncols, count) ==
  IF key \in KeyRight THEN (index + 1) % count
  ELSE IF key \in KeyLeft THEN (index - 1 + count) % count
  ELSE IF key \in KeyDown
       THEN (IF index + ncols < count THEN index + ncols ELSE index % ncols)
  ELSE (IF index - ncols >= 0 THEN index - ncols ELSE LastInColumn(index % ncols, ncols, count))

\* arrow keys in select mode
LineSelectArrow(key) ==
  /\ prim = "line" /\ Reads(key)
  /\ key \in KeyArrows /\ selectMode
  /\ LineContinue
  /\ applySelection(GridMove(key, selectIndex, selectCols, Len(compMatches)))
  /\ UNCHANGED <<ctlVars, menuVars, compMatches, compPrefix, selectMode, selectCols,
                 savedBuffer, savedCursor, multiVars>>

\* every other key: leave select mode or close the grid, then normal key processing
LineEdit(key) ==
  /\ prim = "line" /\ Reads(key)
  /\ key \notin KeyEnter \cup {KeyCtrlC, KeyEscape}
  /\ ~(key = KeyCtrlD /\ buffer = << >>)
  /\ ~(key = KeyTab /\ input.completer # "none")
  /\ ~(key = KeyShiftTab /\ selectMode)
  /\ ~(key \in KeyArrows /\ selectMode)
  /\ (IsPrintable(key) /\ key \notin KeyBackspace) =>
       (Len(buffer) < MaxBuffer \/ (selectMode /\ Len(buffer) <= MaxBuffer))
  /\ LineContinue
  /\ IF selectMode \/ Len(compMatches) > 0
     THEN clearComp
     ELSE UNCHANGED <<compMatches, compPrefix, modeVars>>
  /\ IF key \in KeyBackspace
     THEN IF cursor > 0
          THEN /\ buffer' = Slice(buffer, 0, cursor - 1) \o Slice(buffer, cursor, Len(buffer))
               /\ cursor' = cursor - 1
          ELSE UNCHANGED <<buffer, cursor>>
     ELSE IF key \in KeyLeft
     THEN cursor' = (IF cursor > 0 THEN cursor - 1 ELSE cursor) /\ UNCHANGED buffer
     ELSE IF key \in KeyRight
     THEN cursor' = (IF cursor < Len(buffer) THEN cursor + 1 ELSE cursor) /\ UNCHANGED buffer
     ELSE IF key \in KeyHome
     THEN cursor' = 0 /\ UNCHANGED buffer
     ELSE IF key \in KeyEnd
     THEN cursor' = Len(buffer) /\ UNCHANGED buffer
     ELSE IF key = KeyDelete
     THEN /\ buffer' = (IF cursor < Len(buffer)
                        THEN Slice(buffer, 0, cursor) \o Slice(buffer, cursor + 1, Len(buffer))
                        ELSE buffer)
          /\ UNCHANGED cursor
     ELSE IF key = KeyCtrlU
     THEN buffer' = Slice(buffer, cursor, Len(buffer)) /\ cursor' = 0
     ELSE IF IsPrintable(key)
     THEN /\ buffer' = Slice(buffer, 0, cursor) \o <<key>> \o Slice(buffer, cursor, Len(buffer))
          /\ cursor' = cursor + 1
     ELSE UNCHANGED <<buffer, cursor>>
  /\ UNCHANGED <<ctlVars, menuVars, selectCols, savedBuffer, savedCursor, multiVars>>

LineNext ==
  \/ LineStart
  \/ \E key \in LineKeys :
       \/ LineEnter(key) \/ LineCtrlC(key) \/ LineCtrlD(key) \/ LineEscape(key)
       \/ LineTab(key) \/ LineShiftTab(key) \/ LineSelectArrow(key) \/ LineEdit(key)
  \/ \E line \in LineLines : LineFallbackLine(line)

\* one pass of the key loop of readLineRaw with readKey() = key
LineKeyStep(key) ==
  \/ LineEnter(key) \/ LineCtrlC(key) \/ LineCtrlD(key) \/ LineEscape(key)
  \/ LineTab(key) \/ LineShiftTab(key) \/ LineSelectArrow(key) \/ LineEdit(key)

\* ------------------------------------------------------------------ askMultiSelect
\* longest filter the user types
MaxFilter == 2

\* the sets a caller passes: empty, or holding an element that is no item
MultiSelected == { {}, {<<"z">>} }
\* the characters the user types
FilterChars == {"a", "A", "b", " "}
\* keys offered to askMultiSelect
MultiKeys == KeyEnter \cup KeyArrows \cup KeyBackspace \cup KeyHome \cup KeyEnd \cup FilterChars
               \cup {KeyCtrlC, KeyCtrlU, KeyEscape, KeyTab, KeyShiftTab, KeyDelete,
                     KeyPageUp, KeyEof}

\* the calls: each item list with and without onChange, stdout.columns unknown (0)
\* or 16, with and without a terminal
MultiCalls ==
  {[items |-> c.items, onChange |-> c.onChange, columns |-> c.columns, isTTY |-> t] :
     c \in { [items |-> << >>, onChange |-> TRUE, columns |-> 0],
             [items |-> << <<"a">>, <<"b">>, <<"c">> >>, onChange |-> TRUE,  columns |-> 0],
             [items |-> << <<"a">>, <<"b">>, <<"c">> >>, onChange |-> FALSE, columns |-> 16],
             [items |-> << <<"a">>, <<"B">>, <<"b", "b">> >>, onChange |-> TRUE, columns |-> 16] },
     t \in BOOLEAN}

InitMulti ==
  /\ prim = "multi"
  /\ input \in MultiCalls
  /\ selectedSet \in MultiSelected
  /\ InitCall

\* s.toLowerCase() of a text
LowerText(text) == [i \in 1..Len(text) |-> Lower(text[i])]
\* s.includes(part)
Includes(text, part) ==
  \E i \in 0..(Len(text) - Len(part)) : SubSeq(text, i + 1, i + Len(part)) = part

\* a mistaken variant: the filter is compared as typed, upper and lower case apart
getFilteredCaseSensitive(f) ==
  IF f = << >> THEN input.items
  ELSE SelectSeq(input.items, LAMBDA item : Includes(item, f))

\* getFiltered() for the filter f
getFiltered(f) ==
  IF f = << >> THEN input.items
  ELSE SelectSeq(input.items, LAMBDA item : Includes(LowerText(item), LowerText(f)))

\* Math.max(1, Math.floor((termCols - 2) / cellWidth)), cellWidth = maxItemLen + 6
cols == Max(1, (termCols - 2) \div (MaxLen(input.items) + 6))

\* a key that does not call fireChange
noChange == fired' = 0 /\ changeArg' = {}
\* a mistaken variant: onChange is called before the set is changed
fireChangeFirst ==
  IF input.onChange THEN fired' = 1 /\ changeArg' = selectedSet
  ELSE fired' = 0 /\ changeArg' = {}
\* fireChange(), called after the set was changed: if (onChange) onChange(selected)
fireChange ==
  IF input.onChange THEN fired' = 1 /\ changeArg' = selectedSet'
  ELSE fired' = 0 /\ changeArg' = {}
\* the set of the entries of a list
Range(list) == {list[i] : i \in 1..Len(list)}

\* the finally block of askMultiSelect: raw mode off, the prompt's rows cleared
MultiReturn ==
  /\ pc' = "returned"
  /\ result' = Void
  /\ rawMode' = FALSE
  /\ cursorRow' = cursorRow - 3

\* the loop goes on to the next readKey()
MultiContinue == UNCHANGED <<pc, rawMode, result, cursorRow>>

\* a mistaken variant: only a missing terminal returns at once, an empty list is shown
MultiStartTerminalOnly ==
  /\ prim = "multi" /\ pc = "start"
  /\ IF ~input.isTTY
     THEN /\ pc' = "returned" /\ result' = Void
          /\ UNCHANGED <<rawMode, cursorRow, filtered>>
     ELSE /\ filtered' = getFiltered(filter)
          /\ cursorRow' = cursorRow + 3
          /\ rawMode' = TRUE
          /\ pc' = "loop"
          /\ UNCHANGED result
  /\ UNCHANGED <<ctlVars, stdinEnded, selected, lastRender, lineVars, modeVars,
                 filter, filterCursor, selectedSet, fired, changeArg>>

\* askMultiSelect up to its key loop
MultiStart ==
  /\ prim = "multi" /\ pc = "start"
  /\ IF ~input.isTTY \/ Len(input.items) = 0
     THEN /\ pc' = "returned" /\ result' = Void
          /\ UNCHANGED <<rawMode, cursorRow, filtered>>
     ELSE /\ filtered' = getFiltered(filter)
          /\ cursorRow' = cursorRow + 3
          /\ rawMode' = TRUE
          /\ pc' = "loop"
          /\ UNCHANGED result
  /\ UNCHANGED <<ctlVars, stdinEnded, selected, lastRender, lineVars, modeVars,
                 filter, filterCursor, selectedSet, fired, changeArg>>

\* process.exit(0) inside the try block: the finally block is not run
MultiCtrlC(key) ==
  /\ prim = "multi" /\ Reads(key)
  /\ key = KeyCtrlC
  /\ pc' = "exited"
  /\ UNCHANGED <<ctlVars, rawMode, result, menuVars, lineVars, modeVars, multiVars>>

\* a mistaken variant: Escape in typing mode with a filter typed clears the filter
MultiEscapeClearsFilter(key) ==
  /\ prim = "multi" /\ Reads(key)
  /\ key = KeyEscape
  /\ IF selectMode
     THEN /\ selectMode' = FALSE /\ MultiContinue
          /\ UNCHANGED <<filter, filterCursor, filtered>>
     ELSE IF filter # << >>
     THEN /\ filter' = << >> /\ filterCursor' = 0 /\ filtered' = getFiltered(<< >>)
          /\ MultiContinue /\ UNCHANGED selectMode
     ELSE /\ MultiReturn
          /\ UNCHANGED <<selectMode, filter, filterCursor, filtered>>
  /\ noChange
  /\ UNCHANGED <<ctlVars, selected, lastRender, lineVars, selectIndex, selectedSet>>

\* Escape: out of select mode, or out of the call
MultiEscape(key) ==
  /\ prim = "multi" /\ Reads(key)
  /\ key = KeyEscape
  /\ IF selectMode
     THEN selectMode' = FALSE /\ MultiContinue
     ELSE MultiReturn /\ UNCHANGED selectMode
  /\ noChange
  /\ UNCHANGED <<ctlVars, selected, lastRender, lineVars, selectIndex,
                 filter, filterCursor, filtered, selectedSet>>

\* a mistaken variant: Backspace on the empty filter goes on reading keys
MultiBackspaceStaysOnEmpty(key) ==
  /\ prim = "multi" /\ Reads(key)
  /\ key \in KeyBackspace
  /\ noChange
  /\ IF selectMode
     THEN /\ selectMode' = FALSE /\ MultiContinue
          /\ UNCHANGED <<selectIndex, filter, filterCursor, filtered>>
     ELSE IF filter = << >>
     THEN /\ MultiContinue
          /\ UNCHANGED <<modeVars, filter, filterCursor, filtered>>
     ELSE IF filterCursor > 0
     THEN LET f == Slice(filter, 0, filterCursor - 1) \o Slice(filter, filterCursor, Len(filter))
          IN  /\ filter' = f
              /\ filterCursor' = filterCursor - 1
              /\ filtered' = getFiltered(f)
              /\ selectIndex' = 0
              /\ MultiContinue
              /\ UNCHANGED selectMode
     ELSE /\ MultiContinue
          /\ UNCHANGED <<modeVars, filter, filterCursor, filtered>>
  /\ UNCHANGED <<ctlVars, selected, lastRender, lineVars, selectedSet>>

\* a mistaken variant: Backspace shortens the filter and keeps the list it showed
MultiBackspaceStale(key) ==
  /\ prim = "multi" /\ Reads(key)
  /\ key \in KeyBackspace
  /\ noChange
  /\ IF selectMode
     THEN /\ selectMode' = FALSE /\ MultiContinue
          /\ UNCHANGED <<selectIndex, filter, filterCursor, filtered>>
     ELSE IF filter = << >>
     THEN /\ MultiReturn
          /\ UNCHANGED <<modeVars, filter, filterCursor, filtered>>
     ELSE IF filterCursor > 0
     THEN LET f == Slice(filter, 0, filterCursor - 1) \o Slice(filter, filterCursor, Len(filter))
          IN  /\ filter' = f
              /\ filterCursor' = filterCursor - 1
              /\ filtered' = filtered
              /\ selectIndex' = 0
              /\ MultiContinue
              /\ UNCHANGED selectMode
     ELSE /\ MultiContinue
          /\ UNCHANGED <<modeVars, filter, filterCursor, filtered>>
  /\ UNCHANGED <<ctlVars, selected, lastRender, lineVars, selectedSet>>

MultiBackspace(key) ==
  /\ prim = "multi" /\ Reads(key)
  /\ key \in KeyBackspace
  /\ noChange
  /\ IF selectMode
     THEN /\ selectMode' = FALSE /\ MultiContinue
          /\ UNCHANGED <<selectIndex, filter, filterCursor, filtered>>
     ELSE IF filter = << >>
     THEN /\ MultiReturn
          /\ UNCHANGED <<modeVars, filter, filterCursor, filtered>>
     ELSE IF filterCursor > 0
     THEN LET f == Slice(filter, 0, filterCursor - 1) \o Slice(filter, filterCursor, Len(filter))
          IN  /\ filter' = f
              /\ filterCursor' = filterCursor - 1
              /\ filtered' = getFiltered(f)
              /\ selectIndex' = 0
              /\ MultiContinue
              /\ UNCHANGED selectMode
     ELSE /\ MultiContinue
          /\ UNCHANGED <<modeVars, filter, filterCursor, filtered>>
  /\ UNCHANGED <<ctlVars, selected, lastRender, lineVars, selectedSet>>

\* a mistaken variant: Tab enters select mode on an empty grid too
MultiTabOnEmpty(key) ==
  /\ prim = "multi" /\ Reads(key)
  /\ key = KeyTab
  /\ noChange
  /\ MultiContinue
  /\ IF ~selectMode THEN selectMode' = TRUE /\ selectIndex' = 0
     ELSE selectIndex' = (selectIndex + 1) % Len(filtered) /\ UNCHANGED selectMode
  /\ UNCHANGED <<ctlVars, selected, lastRender, lineVars, filter, filterCursor, filtered,
                 selectedSet>>

\* Tab: into select mode, or on to the next entry; nothing on an empty grid
MultiTab(key) ==
  /\ prim = "multi" /\ Reads(key)
  /\ key = KeyTab
  /\ noChange
  /\ MultiContinue
  /\ IF Len(filtered) = 0 THEN UNCHANGED modeVars
     ELSE IF ~selectMode THEN selectMode' = TRUE /\ selectIndex' = 0
     ELSE selectIndex' = (selectIndex + 1) % Len(filtered) /\ UNCHANGED selectMode
  /\ UNCHANGED <<ctlVars, selected, lastRender, lineVars, filter, filterCursor, filtered,
                 selectedSet>>

MultiShiftTab(key) ==
  /\ prim = "multi" /\ Reads(key)
  /\ key = KeyShiftTab
  /\ noChange
  /\ MultiContinue
  /\ IF selectMode /\ Len(filtered) > 0
     THEN selectIndex' = (selectIndex - 1 + Len(filtered)) % Len(filtered)
     ELSE UNCHANGED selectIndex
  /\ UNCHANGED <<ctlVars, selected, lastRender, lineVars, selectMode, filter, filterCursor,
                 filtered, selectedSet>>

\* arrow keys in select mode
MultiSelectArrow(key) ==
  /\ prim = "multi" /\ Reads(key)
  /\ key \in KeyArrows /\ selectMode
  /\ noChange
  /\ MultiContinue
  /\ selectIndex' = GridMove(key, selectIndex, cols, Len(filtered))
  /\ UNCHANGED <<ctlVars, selected, lastRender, lineVars, selectMode, filter, filterCursor,
                 filtered, selectedSet>>

\* a mistaken variant: the item is added whether or not it is selected
toggleItemAddOnly(set, item) == set \cup {item}
\* if (selected.has(item)) selected.delete(item); else selected.add(item)
toggleItem(set, item) ==
  IF item \in set THEN set \ {item} ELSE set \cup {item}

\* Space or Enter in select mode: toggle the highlighted item
MultiToggle(key) ==
  /\ prim = "multi" /\ Reads(key)
  /\ key \in {" "} \cup KeyEnter /\ selectMode
  /\ selectedSet' = toggleItem(selectedSet, filtered[selectIndex + 1])
  /\ fireChange
  /\ MultiContinue
  /\ UNCHANGED <<ctlVars, selected, lastRender, lineVars, modeVars, filter, filterCursor,
                 filtered>>

\* a mistaken variant: the entries of the list are added and never deleted
toggleFilteredAddOnly(set, list) == set \cup Range(list)
\* allSelected = list.every(i => selected.has(i)); delete every entry of the list when
\* allSelected, add every entry otherwise
toggleFiltered(set, list) ==
  IF Range(list) \subseteq set THEN set \ Range(list) ELSE set \cup Range(list)

\* a or A in select mode: toggle all filtered items
MultiToggleFiltered(key) ==
  /\ prim = "multi" /\ Reads(key)
  /\ key \in {"a", "A"} /\ selectMode
  /\ selectedSet' = toggleFiltered(selectedSet, filtered)
  /\ fireChange
  /\ MultiContinue
  /\ UNCHANGED <<ctlVars, selected, lastRender, lineVars, modeVars, filter, filterCursor,
                 filtered>>

\* typing mode: Up, Down or Enter enter select mode
MultiEnterSelect(key) ==
  /\ prim = "multi" /\ Reads(key)
  /\ key \in KeyUp \cup KeyDown \cup KeyEnter /\ ~selectMode
  /\ noChange
  /\ MultiContinue
  /\ IF Len(filtered) > 0
     THEN selectMode' = TRUE /\ selectIndex' = 0
     ELSE UNCHANGED modeVars
  /\ UNCHANGED <<ctlVars, selected, lastRender, lineVars, filter, filterCursor, filtered,
                 selectedSet>>

\* a mistaken variant: the items are added and never cleared
toggleAllAddOnly(set) == set \cup Range(input.items)
\* allSelected = items.every(i => selected.has(i)); selected.clear() when allSelected,
\* add every item otherwise
toggleAll(set) ==
  IF Range(input.items) \subseteq set THEN {} ELSE set \cup Range(input.items)

\* typing mode with the empty filter: a or A toggles all items
MultiToggleAll(key) ==
  /\ prim = "multi" /\ Reads(key)
  /\ key \in {"a", "A"} /\ ~selectMode /\ filter = << >>
  /\ selectedSet' = toggleAll(selectedSet)
  /\ filtered' = getFiltered(filter)
  /\ fireChange
  /\ MultiContinue
  /\ UNCHANGED <<ctlVars, selected, lastRender, lineVars, modeVars, filter, filterCursor>>

\* a mistaken variant: the character is appended, wherever the filter cursor is
insertAtEnd(text, at, key) == text \o <<key>>
\* filter.slice(0, filterCursor) + key + filter.slice(filterCursor)
insertAt(text, at, key) == Slice(text, 0, at) \o <<key>> \o Slice(text, at, Len(text))

\* every other key: leave select mode, then the filter's key processing
MultiEdit(key) ==
  /\ prim = "multi" /\ Reads(key)
  /\ key \notin KeyEnter \cup KeyBackspace \cup {KeyCtrlC, KeyEscape, KeyTab, KeyShiftTab}
  /\ selectMode => key \notin KeyArrows \cup {" ", "a", "A"}
  /\ ~selectMode => key \notin KeyUp \cup KeyDown
  /\ ~(key \in {"a", "A"} /\ ~selectMode /\ filter = << >>)
  /\ IsPrintable(key) => Len(filter) < MaxFilter
  /\ noChange
  /\ MultiContinue
  /\ selectMode' = FALSE
  /\ IF key \in KeyLeft
     THEN /\ filterCursor' = (IF filterCursor > 0 THEN filterCursor - 1 ELSE filterCursor)
          /\ UNCHANGED <<filter, filtered, selectIndex>>
     ELSE IF key \in KeyRight
     THEN /\ filterCursor' = (IF filterCursor < Len(filter) THEN filterCursor + 1
                              ELSE filterCursor)
          /\ UNCHANGED <<filter, filtered, selectIndex>>
     ELSE IF key \in KeyHome
     THEN filterCursor' = 0 /\ UNCHANGED <<filter, filtered, selectIndex>>
     ELSE IF key \in KeyEnd
     THEN filterCursor' = Len(filter) /\ UNCHANGED <<filter, filtered, selectIndex>>
     ELSE IF key = KeyCtrlU
     THEN LET f == Slice(filter, filterCursor, Len(filter)) IN
          /\ filter' = f
          /\ filterCursor' = 0
          /\ filtered' = getFiltered(f)
          /\ selectIndex' = 0
     ELSE IF key = KeyDelete
     THEN IF filterCursor < Len(filter)
          THEN LET f == Slice(filter, 0, filterCursor)
                          \o Slice(filter, filterCursor + 1, Len(filter))
               IN  /\ filter' = f
                   /\ filtered' = getFiltered(f)
                   /\ selectIndex' = 0
                   /\ UNCHANGED filterCursor
          ELSE UNCHANGED <<filter, filterCursor, filtered, selectIndex>>
     ELSE IF IsPrintable(key)
     THEN LET f == insertAt(filter, filterCursor, key)
              shown == getFiltered(f)
          IN  /\ filter' = f
              /\ filterCursor' = filterCursor + 1
              /\ filtered' = shown
              /\ selectIndex' = IF selectIndex >= Len(shown)
                                THEN Max(0, Len(shown) - 1) ELSE selectIndex
     ELSE UNCHANGED <<filter, filterCursor, filtered, selectIndex>>
  /\ UNCHANGED <<ctlVars, selected, lastRender, lineVars, selectedSet>>

MultiNext ==
  \/ MultiStart
  \/ \E key \in MultiKeys :
       \/ MultiCtrlC(key) \/ MultiEscape(key) \/ MultiBackspace(key) \/ MultiTab(key)
       \/ MultiShiftTab(key) \/ MultiSelectArrow(key) \/ MultiToggle(key)
       \/ MultiToggleFiltered(key) \/ MultiEnterSelect(key) \/ MultiToggleAll(key)
       \/ MultiEdit(key)

\* one pass of the key loop of askMultiSelect with readKey() = key
MultiKeyStep(key) ==
  \/ MultiCtrlC(key) \/ MultiEscape(key) \/ MultiBackspace(key) \/ MultiTab(key)
  \/ MultiShiftTab(key) \/ MultiSelectArrow(key) \/ MultiToggle(key)
  \/ MultiToggleFiltered(key) \/ MultiEnterSelect(key) \/ MultiToggleAll(key)
  \/ MultiEdit(key)

\* ------------------------------------------------------------------ truncate
\* longest description or help line of the option drawn
MaxText == 3
\* the one character "…" that truncate appends
Ellipsis == "U+2026"
\* the texts of an option: up to MaxText characters
RenderTexts == UNION {[1..n -> {"a", "b"}] : n \in 0..MaxText}
\* stdout.columns: unknown (0), or so narrow that the description or the help line
\* does not fit
RenderColumns == 0..(14 + MaxText)

\* a mistaken variant: maxLen characters are kept before the ellipsis
truncateKeepsMaxLen(s, maxLen) ==
  IF maxLen <= 0 THEN << >>
  ELSE IF Len(s) <= maxLen THEN s
  ELSE Slice(s, 0, maxLen) \o <<Ellipsis>>

truncate(s, maxLen) ==
  IF maxLen <= 0 THEN << >>
  ELSE IF Len(s) <= maxLen THEN s
  ELSE Slice(s, 0, maxLen - 1) \o <<Ellipsis>>

\* renderOptions of ask for the highlighted option: its label is one character, the
\* synthetic row's has four ("Exit", "Back"), and the row numbers have one digit
maxLabel == 4
maxNumWidth == 2
\* cols - 5 - maxNumWidth - maxLabel - 2
descAvail == termCols - 5 - maxNumWidth - maxLabel - 2
\* cols - 2
helpAvail == termCols - 2

InitRender ==
  /\ prim = "render"
  /\ input \in [description : RenderTexts, help : RenderTexts, columns : RenderColumns]
  /\ selectedSet = {}
  /\ InitCall

\* the row of the option is written: result holds the description as shown
RenderRow ==
  /\ prim = "render" /\ pc = "start"
  /\ pc' = "row"
  /\ result' = Text(truncate(input.description, descAvail))
  /\ UNCHANGED <<ctlVars, rawMode, stdinEnded, menuVars, lineVars, modeVars, multiVars>>

\* its help line is written: result holds the help line as shown
RenderHelp ==
  /\ prim = "render" /\ pc = "row"
  /\ pc' = "returned"
  /\ result' = Text(truncate(input.help, helpAvail))
  /\ UNCHANGED <<ctlVars, rawMode, stdinEnded, menuVars, lineVars, modeVars, multiVars>>

RenderNext == RenderRow \/ RenderHelp

Init == InitAsk \/ InitDashboard \/ InitLine \/ InitMulti
Next == AskNext \/ DashNext \/ LineNext \/ MultiNext
Spec == Init /\ [][Next]_vars
SpecAsk == InitAsk /\ [][AskNext]_vars
SpecDashboard == InitDashboard /\ [][DashNext]_vars
SpecLine == InitLine /\ [][LineNext]_vars
SpecMulti == InitMulti /\ [][MultiNext]_vars
SpecRender == InitRender /\ [][RenderNext]_vars
\* ================================================================== properties

\* C1: whenever a primitive has returned to its caller, raw mode is off, and raw mode
\* is never on before a primitive enters its key loop nor in a fallback loop
RawModeOffOnReturn ==
  pc \in {"start", "fallback", "returned"} => ~rawMode
\* a dashboard call on a terminal has returned an action from its key loop
RawModeOffOnReturnWitness ==
  /\ prim = "dashboard" /\ input.isTTY
  /\ pc = "returned" /\ result.kind = "action" /\ ~rawMode

\* C2: when Ctrl-C has ended the process, raw mode has been switched off
CtrlCRestoresRawMode ==
  pc = "exited" => ~rawMode

\* the rows the claim gives for one render of ask
AskClaimedHeight ==
  Len(allOptions) + 2
    + (IF \E i \in 1..Len(allOptions) : Truthy(allOptions[i].help)
       THEN 1 + askMaxHelpLines ELSE 0)

\* C3: in ask, a render writes totalHeight rows for every highlighted index, the help
\* area is filled up to maxHelpLines rows, and after every redraw the region starts on
\* the same row and the cursor is on the row below it
AskRenderHeightStable ==
  prim = "ask" =>
    /\ askTotalHeight = AskClaimedHeight
    /\ \A sel \in 0..(Len(allOptions) - 1) :
         LET out == renderOptions(allOptions, sel, askMaxHelpLines) IN
         /\ Len(out) = askTotalHeight
         /\ Cardinality({i \in 1..Len(out) : out[i] \in {"help", "cleared"}})
              = askMaxHelpLines
    /\ (input.isTTY /\ pc # "start") => lastRender = [top |-> 3, rows |-> askTotalHeight]
    /\ pc = "loop" => cursorRow = 3 + askTotalHeight
\* Down has moved the highlight to an option whose help is shorter than the longest
AskRenderHeightStableWitness ==
  /\ prim = "ask" /\ pc = "loop" /\ selected = 1
  /\ askMaxHelpLines = MaxHelpLines
  /\ HelpLineCount(allOptions[2].help) < askMaxHelpLines

\* C4: in askDashboard, getDashboardHeight equals the rows renderDashboard writes for
\* every highlighted index; a redraw leaves the region and the cursor where they were,
\* and the final clearLines puts the cursor back on the row where the call began
DashboardHeightExact ==
  (prim = "dashboard" /\ Len(allItems) > 0) =>
    /\ \A sel \in 0..(Len(allItems) - 1) :
         Len(renderDashboard(input.sections, input.actions, allItems, sel,
                             dashMaxHelpLines, statusLines))
           = getDashboardHeight(input.sections, input.actions, dashMaxHelpLines,
                                Len(statusLines))
    /\ pc # "start" => lastRender = [top |-> 3, rows |-> bodyHeight]
    /\ pc \in {"loop", "fallback"} => cursorRow = 3 + bodyHeight
    /\ (pc = "returned" /\ input.isTTY) => cursorRow = 0
\* a dashboard with a titled and an untitled section, actions, help and a status text
\* has been redrawn by Down and has returned
DashboardHeightExactWitness ==
  /\ prim = "dashboard" /\ input.isTTY /\ pc = "returned"
  /\ Len(input.sections) = 2
  /\ input.sections[1].title = "" /\ input.sections[2].title # ""
  /\ Len(input.actions) > 0 /\ dashMaxHelpLines > 0 /\ Len(statusLines) > 0
  /\ selected > dashInitialSelected

\* C5: the cursor of the line editor is between 0 and the length of the buffer, and
\* the cursor of the filter of askMultiSelect between 0 and the length of the filter
CursorInBounds ==
  /\ prim = "line" => (0 <= cursor /\ cursor <= Len(buffer))
  /\ prim = "multi" => (0 <= filterCursor /\ filterCursor <= Len(filter))
\* a grid selection has replaced the buffer and moved the cursor to its end
CursorInBoundsWitness ==
  /\ prim = "line" /\ pc = "loop" /\ selectMode /\ selectIndex > 0
  /\ buffer # savedBuffer /\ cursor = Len(buffer) /\ cursor > savedCursor

\* C6: in the line editor the stored match list never has exactly one entry, select
\* mode is on only with more than one stored match, and selectIndex is then an index
\* of the list
SelectModeNeedsMatches ==
  prim = "line" =>
    /\ Len(compMatches) # 1
    /\ selectMode => (Len(compMatches) > 1
                      /\ 0 <= selectIndex /\ selectIndex < Len(compMatches))
\* the last entry of a completion grid is highlighted
SelectModeNeedsMatchesWitness ==
  /\ prim = "line" /\ pc = "loop" /\ selectMode
  /\ selectIndex = Len(compMatches) - 1

\* the rows Up and Down move over in ask and askDashboard
MenuRows == IF prim = "ask" THEN Len(allOptions) ELSE Len(allItems)
\* one turn of the key loop of ask or askDashboard on the key read
MenuKeyStep(key) == AskKeyStep(key) \/ DashKeyStep(key)

\* C7: in ask and askDashboard the highlighted index is in [0, n-1]; Up at 0 and Down
\* at n-1 leave it unchanged, every other Up or Down moves it by one
SelectionClamped ==
  /\ [](prim \in {"ask", "dashboard"} /\ MenuRows > 0
          => (0 <= selected /\ selected <= MenuRows - 1))
  /\ [][\A key \in KeyUp \cup KeyDown :
          MenuKeyStep(key) =>
            selected' = IF key \in KeyUp
                        THEN (IF selected = 0 THEN 0 ELSE selected - 1)
                        ELSE (IF selected = MenuRows - 1 THEN selected ELSE selected + 1)]_vars
\* Down has moved the highlight of ask to the synthetic last row
SelectionClampedWitness ==
  /\ prim = "ask" /\ pc = "loop"
  /\ Len(input.options) = MaxOptions /\ selected = Len(allOptions) - 1

\* C8: ask returns -1 or an index of the caller's options; Enter on the synthetic last
\* row, the digit of that row, and Backspace on any row return -1
AskReturnsOptionOrExit ==
  /\ [](prim = "ask" /\ pc = "returned"
          => /\ result.kind = "index"
             /\ result.val \in {-1} \cup (0..(Len(input.options) - 1)))
  /\ [][\A key \in AskKeys :
          (/\ AskKeyStep(key)
           /\ \/ key \in KeyEnter /\ selected = Len(input.options)
              \/ key \in KeyBackspace
              \/ ParseInt(key) = Len(input.options) + 1)
            => (pc' = "returned" /\ result' = Index(-1))]_vars
\* two options and exit: Enter on the third row has returned -1
AskReturnsOptionOrExitWitness ==
  /\ prim = "ask" /\ input.isTTY /\ input.exit /\ Len(input.options) = 2
  /\ pc = "returned" /\ selected = 2 /\ result = Index(-1)

\* C9: in askDashboard a key that equals a registered hotkey but for case returns that
\* action at once, with the highlight and the screen untouched, also when the key is
\* a digit or an item's key
HotkeyBeforeItems ==
  [][\A key \in DashKeys :
       (DashKeyStep(key) /\ \E i \in 1..Len(input.actions) :
                               Lower(input.actions[i].key) = Lower(key))
         => /\ pc' = "returned"
            /\ result'.kind = "action"
            /\ Lower(result'.val) = Lower(key)
            /\ \E i \in 1..Len(input.actions) : input.actions[i].key = result'.val
            /\ selected' = selected /\ lastRender' = lastRender]_vars
\* the hotkey S, registered in upper case on a dashboard that has an item with the key
\* s, has been returned while another row was highlighted
HotkeyBeforeItemsWitness ==
  /\ prim = "dashboard" /\ input.isTTY /\ pc = "returned"
  /\ result = Action("S")
  /\ \E i \in 1..Len(allItems) : allItems[i].key = "s"
  /\ selected > 0

\* the value a primitive returns on an explicit cancel
CancelValue ==
  CASE prim = "ask" -> Index(-1)
    [] prim = "multi" -> Void
    [] OTHER -> Null

\* C10: once a read has returned end of stream, the call has returned its cancel value
EndOfStreamCancels ==
  stdinEnded => (pc = "returned" /\ result = CancelValue)

\* C11: when standard input is not a terminal no primitive switches raw mode on or
\* reads a raw key: ask, askDashboard and the line editor only read lines (the line
\* editor a single one), and askMultiSelect returns at once without reading anything.
NoRawModeWithoutTerminal ==
  ~input.isTTY =>
    /\ ~rawMode
    /\ pc \in {"start", "fallback", "returned", "exited"}
    /\ prim = "multi" => pc \in {"start", "returned"} /\ ~stdinEnded /\ selectedSet \in MultiSelected
    /\ (prim = "line" /\ pc = "returned") => result \in {Null} \cup {Text(<< >>), Text(<<"a">>)}
\* the line editor without a terminal has returned the line it read
NoRawModeWithoutTerminalWitness ==
  ~input.isTTY /\ prim = "line" /\ pc = "returned" /\ result = Text(<<"a">>)

\* the longest text every entry of a non-empty list starts with
LongestCommonPrefix(texts) ==
  CHOOSE p \in {SubSeq(texts[1], 1, n) : n \in 0..Len(texts[1])} :
    /\ \A i \in 1..Len(texts) : StartsWith(texts[i], p)
    /\ \A n \in (Len(p) + 1)..Len(texts[1]) :
         \E i \in 1..Len(texts) : ~StartsWith(texts[i], SubSeq(texts[1], 1, n))

\* C12: with no match grid stored, Tab completes the text before the cursor: with one
\* match that text becomes the completed match, with several it becomes their longest
\* common prefix; the cursor is right after it and the text after the cursor is kept;
\* only several matches are stored as a grid, and select mode stays off.
TabCompletes ==
  [][(LineKeyStep(KeyTab) /\ compMatches = << >>
        /\ completer(Slice(buffer, 0, cursor)).found) =>
       LET found == completer(Slice(buffer, 0, cursor))
           after == Slice(buffer, cursor, Len(buffer))
           whole == found.prefix \o (IF Len(found.matches) = 1 THEN found.matches[1]
                                     ELSE LongestCommonPrefix(found.matches))
       IN  /\ StartsWith(whole, Slice(buffer, 0, cursor))
           /\ buffer' = whole \o after
           /\ cursor' = Len(whole)
           /\ compMatches' = (IF Len(found.matches) = 1 THEN << >> ELSE found.matches)
           /\ selectMode' = FALSE]_vars
\* "c" was typed, the cursor moved home, and Tab spliced the common prefix "c" of the
\* three matches in front of it
TabCompletesWitness ==
  /\ prim = "line" /\ pc = "loop"
  /\ buffer = <<"c", "c">> /\ cursor = 1
  /\ compMatches = << <<"c", "/">>, <<"c", "a">>, <<"c", "b">> >> /\ ~selectMode

\* C13: with a grid of several matches shown and select mode off, Tab enters select
\* mode at index 0; in select mode Tab moves to the next entry and Shift-Tab to the
\* previous one, wrapping around the list; each time the whole buffer becomes prefix +
\* highlighted entry with the cursor at its end. (Typed "c" with the matches c/, ca, cb:
\* the first Tab leaves "c" with the grid, the second makes the buffer "c/".)
TabSelects ==
  [][/\ (LineKeyStep(KeyTab) /\ Len(compMatches) > 0 /\ ~selectMode) =>
          /\ selectMode' /\ selectIndex' = 0
          /\ buffer' = compPrefix \o compMatches[1]
          /\ cursor' = Len(buffer')
          /\ compMatches' = compMatches
     /\ (LineKeyStep(KeyTab) /\ selectMode) =>
          /\ selectMode'
          /\ selectIndex' = (IF selectIndex = Len(compMatches) - 1 THEN 0 ELSE selectIndex + 1)
          /\ buffer' = compPrefix \o compMatches[selectIndex' + 1]
          /\ cursor' = Len(buffer')
          /\ compMatches' = compMatches
     /\ (LineKeyStep(KeyShiftTab) /\ selectMode) =>
          /\ selectMode'
          /\ selectIndex' = (IF selectIndex = 0 THEN Len(compMatches) - 1 ELSE selectIndex - 1)
          /\ buffer' = compPrefix \o compMatches[selectIndex' + 1]
          /\ cursor' = Len(buffer')
          /\ compMatches' = compMatches
     /\ (LineKeyStep(KeyTab) /\ buffer = <<"c">> /\ cursor = 1 /\ input.completer = "file") =>
          IF compMatches = << >>
          THEN buffer' = <<"c">> /\ Len(compMatches') = 3 /\ ~selectMode'
          ELSE buffer' = <<"c", "/">> /\ selectMode']_vars
\* "c" typed, Tab, Tab: the first match c/ is in the buffer; the typed text is saved
TabSelectsWitness ==
  /\ prim = "line" /\ pc = "loop" /\ selectMode /\ selectIndex = 0
  /\ savedBuffer = <<"c">> /\ buffer = <<"c", "/">> /\ cursor = 2

\* the grid of the running primitive: its column count and its number of entries
GridCols  == IF prim = "line" THEN selectCols ELSE cols
GridCount == IF prim = "line" THEN Len(compMatches) ELSE Len(filtered)
\* the entries in the grid column of entry i
GridColumn(i) == {j \in 0..(GridCount - 1) : j % GridCols = i % GridCols}
\* where an arrow key is to take the highlight from entry i
GridTarget(key, i) ==
  IF key \in KeyRight THEN (IF i = GridCount - 1 THEN 0 ELSE i + 1)
  ELSE IF key \in KeyLeft THEN (IF i = 0 THEN GridCount - 1 ELSE i - 1)
  ELSE IF key \in KeyDown
       THEN (IF i + GridCols \in GridColumn(i) THEN i + GridCols
             ELSE CHOOSE j \in GridColumn(i) : \A k \in GridColumn(i) : j <= k)
  ELSE (IF i - GridCols \in GridColumn(i) THEN i - GridCols
        ELSE CHOOSE j \in GridColumn(i) : \A k \in GridColumn(i) : j >= k)

\* C14: in select mode, in the completion grid of the line editor and in the multi-select
\* grid, Right and Left move the highlight by one entry modulo the number of entries;
\* Down and Up move it by one row within its column, wrapping to the top or bottom entry
\* of that column, also when the last row is incomplete; Up undoes Down and Left undoes
\* Right from every position.
GridNavigation ==
  [][\A key \in KeyArrows :
       (selectMode
          /\ ((prim = "line" /\ LineKeyStep(key)) \/ (prim = "multi" /\ MultiKeyStep(key)))) =>
         /\ selectMode'
         /\ selectIndex' = GridTarget(key, selectIndex)
         /\ LET c == GridCols
                n == GridCount
            IN  \A i \in 0..(n - 1) :
                  /\ \A up \in KeyUp, down \in KeyDown :
                       /\ GridMove(up, GridMove(down, i, c, n), c, n) = i
                       /\ GridMove(down, i, c, n) % c = i % c
                       /\ GridMove(up, i, c, n) % c = i % c
                  /\ \A left \in KeyLeft, right \in KeyRight :
                       GridMove(left, GridMove(right, i, c, n), c, n) = i]_vars
\* three entries in two columns: the highlight is on the bottom entry of the first
\* column, below entry 0, next to the hole of the incomplete last row
GridNavigationWitness ==
  /\ prim = "multi" /\ pc = "loop" /\ selectMode
  /\ cols = 2 /\ Len(filtered) = 3 /\ selectIndex = 2
\* the same in the completion grid of the line editor
GridNavigationLineWitness ==
  /\ prim = "line" /\ pc = "loop" /\ selectMode
  /\ selectCols = 2 /\ Len(compMatches) = 3 /\ selectIndex = 2

\* C15: in the line editor Enter ends the call and returns the current buffer, in every
\* state of the editor: typing, grid shown, select mode.
EnterReturnsBuffer ==
  [][\A key \in KeyEnter :
       LineKeyStep(key) => (pc' = "returned" /\ result' = Text(buffer))]_vars

\* the keys that neither navigate the grid nor cancel: they leave select mode
LineOtherKeys == LineKeys \ (KeyArrows \cup {KeyTab, KeyShiftTab, KeyEscape, KeyCtrlC})

\* C16: the buffer and cursor at the moment select mode is entered are kept unchanged
\* through every navigation step, and Escape in select mode puts exactly them back and
\* closes the grid. Every other non-navigation key leaves select mode and is processed
\* on the highlighted completion: a printable character gives completion + character
\* with the cursor at the end.
SelectEscapeRestores ==
  [][/\ (~selectMode /\ selectMode') => (savedBuffer' = buffer /\ savedCursor' = cursor)
     /\ (selectMode /\ selectMode') =>
          (savedBuffer' = savedBuffer /\ savedCursor' = savedCursor)
     /\ selectMode' =>
          (buffer' = compPrefix' \o compMatches'[selectIndex' + 1] /\ cursor' = Len(buffer'))
     /\ (selectMode /\ LineKeyStep(KeyEscape)) =>
          /\ buffer' = savedBuffer /\ cursor' = savedCursor
          /\ compMatches' = << >> /\ ~selectMode' /\ pc' = "loop"
     /\ \A key \in LineOtherKeys :
          (selectMode /\ LineKeyStep(key)) =>
            /\ ~selectMode' /\ compMatches' = << >>
            /\ key \in TypeChars => (buffer' = buffer \o <<key>> /\ cursor' = Len(buffer'))
            /\ key \in KeyEnter \cup KeyHome \cup KeyEnd \cup {KeyDelete, KeyCtrlD, KeyPageUp, KeyEof}
                 => buffer' = buffer]_vars
\* "c" was typed on the selected completion c/: the buffer is c/c, the cursor at its end
SelectEscapeRestoresWitness ==
  /\ prim = "line" /\ pc = "loop" /\ ~selectMode /\ compMatches = << >>
  /\ savedBuffer = <<"c">> /\ buffer = <<"c", "/", "c">> /\ cursor = 3

\* the filter f occurs in the item at offset i, upper and lower case alike
OccursAt(item, f, i) ==
  /\ i + Len(f) <= Len(item)
  /\ \A k \in 1..Len(f) : Lower(item[i + k]) = Lower(f[k])
\* list is the sub-sequence, in order, of the items that contain the filter f
IsFilteredBy(list, f) ==
  LET hits == {n \in 1..Len(input.items) :
                 \E i \in 0..Len(input.items[n]) : OccursAt(input.items[n], f, i)}
  IN  /\ Len(list) = Cardinality(hits)
      /\ \A m \in 1..Len(list) :
           \E n \in hits : /\ list[m] = input.items[n]
                            /\ Cardinality({h \in hits : h < n}) = m - 1

\* C17: after every key of askMultiSelect the filtered list is exactly the sub-sequence
\* of the items, in their order, whose lower-cased text contains the lower-cased filter
\* (all items for the empty filter); a change of the filter leaves the selection alone.
\* With items a, b, c and filter "b" the list is [b], toggling it puts b into the
\* selection, and clearing the filter shows the three items with b still selected.
FilteredIsSubsequence ==
  [][/\ (prim = "multi" /\ pc' = "loop") => IsFilteredBy(filtered', filter')
     /\ filter' # filter => selectedSet' = selectedSet
     /\ (prim = "multi" /\ pc' = "loop" /\ input.items = << <<"a">>, <<"b">>, <<"c">> >>) =>
          /\ filter' = <<"b">> => filtered' = << <<"b">> >>
          /\ filter' = << >> => filtered' = input.items
          /\ (filter = <<"b">> /\ selectMode /\ <<"b">> \notin selectedSet
                /\ \E key \in {" "} \cup KeyEnter : MultiKeyStep(key))
               => selectedSet' = selectedSet \cup {<<"b">>}]_vars
\* the scenario: the filter "b" shows only b, and the last key has selected it
FilteredIsSubsequenceWitness ==
  /\ prim = "multi" /\ pc = "loop" /\ input.items = << <<"a">>, <<"b">>, <<"c">> >>
  /\ filter = <<"b">> /\ filtered = << <<"b">> >> /\ selectMode
  /\ <<"b">> \in selectedSet /\ fired = 1
\* the filter matches upper and lower case: "b" shows B and bb
FilteredIgnoresCaseWitness ==
  /\ prim = "multi" /\ pc = "loop" /\ filter = <<"b">>
  /\ filtered = << <<"B">>, <<"b", "b">> >>

\* C18: in select mode Space or Enter flips the membership of the highlighted item in
\* the selected set and of no other element, then calls onChange once when there is
\* one; toggling the same item twice gives back the original set.
ToggleFlipsHighlighted ==
  [][\A key \in {" "} \cup KeyEnter :
       (prim = "multi" /\ selectMode /\ MultiKeyStep(key)) =>
         LET item == filtered[selectIndex + 1] IN
         /\ (item \in selectedSet') # (item \in selectedSet)
         /\ selectedSet' \ {item} = selectedSet \ {item}
         /\ fired' = (IF input.onChange THEN 1 ELSE 0)
         /\ UNCHANGED <<filtered, filter, selectMode, selectIndex, pc>>
         /\ toggleItem(toggleItem(selectedSet, item), item) = selectedSet]_vars
\* b was highlighted and toggled into the selection beside the caller's element z
ToggleFlipsHighlightedWitness ==
  /\ prim = "multi" /\ pc = "loop" /\ selectMode /\ filter = << >>
  /\ selectIndex = 1 /\ selectedSet = {<<"z">>, <<"b">>} /\ fired = 1

\* the select-all key acts: select mode, or typing mode with the empty filter
SelectAllActs == prim = "multi" /\ (selectMode \/ filter = << >>)
\* the selected set after one more press of the select-all key in the next state
SecondPress ==
  IF selectMode' THEN toggleFiltered(selectedSet', filtered') ELSE toggleAll(selectedSet')

\* C19: the select-all key (a or A) pressed twice in a row on an unchanged filtered set
\* clears the selection: after the second press no filtered item is selected, whatever
\* the selection was before the first press.
SelectAllTwiceClears ==
  [][\A key \in {"a", "A"} :
       (SelectAllActs /\ MultiKeyStep(key)) =>
         /\ UNCHANGED <<filtered, filter, selectMode>>
         /\ Range(filtered) \cap SecondPress = {}]_vars
\* C19, amended: a press of the select-all key leaves the filtered set and the mode as
\* they are; it selects every filtered item unless all of them were selected, and then
\* unselects them all. Two presses in a row leave no filtered item selected when not
\* all were selected before the first press, and all of them selected when all were.
SelectAllTwiceFlipsBack ==
  [][\A key \in {"a", "A"} :
       (SelectAllActs /\ MultiKeyStep(key)) =>
         /\ UNCHANGED <<filtered, filter, selectMode>>
         /\ fired' = (IF input.onChange THEN 1 ELSE 0)
         /\ IF \A n \in 1..Len(filtered) : filtered[n] \in selectedSet
            THEN /\ \A n \in 1..Len(filtered) : filtered[n] \notin selectedSet'
                 /\ \A n \in 1..Len(filtered) : filtered[n] \in SecondPress
            ELSE /\ \A n \in 1..Len(filtered) : filtered[n] \in selectedSet'
                 /\ \A n \in 1..Len(filtered) : filtered[n] \notin SecondPress]_vars
\* the filter "b" shows B and bb; the last key fired onChange and neither is selected
SelectAllTwiceFlipsBackWitness ==
  /\ prim = "multi" /\ pc = "loop" /\ selectMode /\ filter = <<"b">>
  /\ filtered = << <<"B">>, <<"b", "b">> >>
  /\ selectedSet = {<<"z">>} /\ fired = 1

\* C20: in typing mode with the empty filter, a or A selects every item of the item
\* list, unless every item is selected already: then it unselects every item. It calls
\* onChange when there is one, and the key is not added to the filter.
SelectAllItems ==
  [][\A key \in {"a", "A"} :
       (prim = "multi" /\ ~selectMode /\ filter = << >> /\ MultiKeyStep(key)) =>
         /\ IF \A n \in 1..Len(input.items) : input.items[n] \in selectedSet
            THEN \A n \in 1..Len(input.items) : input.items[n] \notin selectedSet'
            ELSE /\ \A n \in 1..Len(input.items) : input.items[n] \in selectedSet'
                 /\ selectedSet \subseteq selectedSet'
         /\ fired' = (IF input.onChange THEN 1 ELSE 0)
         /\ filter' = << >> /\ filterCursor' = filterCursor
         /\ filtered' = input.items
         /\ ~selectMode' /\ pc' = "loop"]_vars
\* typing mode, empty filter: the last key fired onChange and every item is selected
SelectAllItemsWitness ==
  /\ prim = "multi" /\ pc = "loop" /\ ~selectMode /\ filter = << >>
  /\ selectedSet = {<<"z">>, <<"a">>, <<"b">>, <<"c">>} /\ fired = 1

\* C21: in typing mode of askMultiSelect any arrow key (Up, Down, Left, Right) or Enter
\* switches to select mode at index 0 when the filtered list has an entry; with an
\* empty filtered list the mode does not change.
ArrowsEnterSelectMode ==
  [][\A key \in KeyArrows \cup KeyEnter :
       (prim = "multi" /\ ~selectMode /\ MultiKeyStep(key)) =>
         IF Len(filtered) > 0 THEN selectMode' /\ selectIndex' = 0
         ELSE ~selectMode']_vars

\* C22: in select mode of askMultiSelect a printable key other than Space, a and A
\* leaves select mode and is processed in the same step as a typing-mode keystroke:
\* the character is inserted into the filter at the filter cursor and the filtered
\* list is recomputed; the key press is not dropped.
SelectModeKeyTyped ==
  [][\A key \in FilterChars \ {" ", "a", "A"} :
       (prim = "multi" /\ selectMode /\ MultiKeyStep(key)) =>
         /\ ~selectMode' /\ pc' = "loop"
         /\ Len(filter') = Len(filter) + 1
         /\ filterCursor' = filterCursor + 1
         /\ filter'[filterCursor'] = key
         /\ \A n \in 1..Len(filter) :
              filter[n] = filter'[IF n <= filterCursor THEN n ELSE n + 1]
         /\ IsFilteredBy(filtered', filter')
         /\ selectedSet' = selectedSet]_vars
\* "b" was typed in front of "a" in the filter; nothing contains "ba"
SelectModeKeyTypedWitness ==
  /\ prim = "multi" /\ pc = "loop" /\ ~selectMode
  /\ filter = <<"b", "a">> /\ filterCursor = 1 /\ filtered = << >>

\* C23: the column count of the multi-select grid is the one computed from the longest
\* label among the items the filter currently shows; rendering and navigation use it.
ColsFollowFiltered ==
  (prim = "multi" /\ pc = "loop" /\ Len(filtered) > 0) =>
    cols = Max(1, (termCols - 2) \div (MaxLen(filtered) + 6))

\* C24: every key of askMultiSelect that changes the filter (a character inserted,
\* Backspace, Delete, Ctrl-U) resets selectIndex to 0, and selectIndex never exceeds
\* the last index of the new filtered list.
FilterChangeResetsIndex ==
  [][\A key \in MultiKeys :
       (prim = "multi" /\ MultiKeyStep(key) /\ filter' # filter) =>
         /\ selectIndex' = 0
         /\ selectIndex' <= Max(0, Len(filtered') - 1)]_vars

\* C25: typing filter characters and then backspacing the filter back to empty shows
\* the original item list again, in its order: Backspace in typing mode removes the
\* character before the filter cursor and recomputes the list, and whenever the filter
\* is empty the list shown is the whole item list.
FilterRoundTrip ==
  [][/\ (prim = "multi" /\ pc' = "loop" /\ filter' = << >>) => filtered' = input.items
     /\ \A key \in KeyBackspace :
          (prim = "multi" /\ ~selectMode /\ filterCursor > 0 /\ MultiKeyStep(key)) =>
            /\ pc' = "loop"
            /\ Len(filter') = Len(filter) - 1
            /\ filterCursor' = filterCursor - 1
            /\ \A n \in 1..Len(filter') :
                 filter'[n] = filter[IF n <= filterCursor' THEN n ELSE n + 1]
            /\ IsFilteredBy(filtered', filter')
            /\ selectedSet' = selectedSet]_vars
\* the filter is empty again and shows the three items; B and bb, the items the filter
\* "b" shows, are the selected ones
FilterRoundTripWitness ==
  /\ prim = "multi" /\ pc = "loop" /\ ~selectMode /\ filter = << >> /\ fired = 0
  /\ filtered = << <<"a">>, <<"B">>, <<"b", "b">> >>
  /\ selectedSet = {<<"B">>, <<"b", "b">>}

\* C26: when standard input is no terminal or the item list is empty, askMultiSelect
\* returns at once: its only step is the return, the selected set is unchanged,
\* onChange is not called, nothing is rendered and raw mode is never switched on.
MultiReturnsAtOnce ==
  [][(prim = "multi" /\ (~input.isTTY \/ Len(input.items) = 0)) =>
       /\ pc = "start" /\ pc' = "returned" /\ result' = Void
       /\ ~rawMode /\ ~rawMode' /\ fired = 0 /\ fired' = 0
       /\ cursorRow' = 0 /\ lastRender' = [top |-> 0, rows |-> 0]
       /\ UNCHANGED <<selectedSet, filter, filtered, selectMode, selectIndex, stdinEnded>>]_vars
\* a terminal, but no items: returned with the caller's set as it was passed
MultiReturnsAtOnceWitness ==
  /\ prim = "multi" /\ pc = "returned" /\ input.isTTY /\ Len(input.items) = 0
  /\ selectedSet = {<<"z">>} /\ ~rawMode /\ cursorRow = 0

\* C27: in the key loop of askDashboard, from any highlighted row, each of Escape,
\* Backspace (DEL or BS) and the Delete key (ESC [ 3 ~) ends the call returning none.
DashCancelKeys ==
  (prim = "dashboard" /\ pc = "loop" /\ ~stdinEnded) =>
    \A key \in {KeyEscape, KeyDelete} \cup KeyBackspace :
      ENABLED (DashKeyStep(key) /\ pc' = "returned" /\ result' = Null)

\* the digit keys and the numbers they stand for
DigitKeys == {"0", "1", "2", "3", "4", "9"}
DigitValue(key) ==
  CASE key = "0" -> 0 [] key = "1" -> 1 [] key = "2" -> 2 [] key = "3" -> 3
    [] key = "4" -> 4 [] key = "9" -> 9
RECURSIVE ItemsBefore(_)
\* the number of items in the sections before section s
ItemsBefore(s) ==
  IF s = 1 THEN 0 ELSE ItemsBefore(s - 1) + Len(input.sections[s - 1].items)
\* the key of the n-th item of a dashboard, in section order, then in-section order
NthItemKey(n) ==
  LET s == CHOOSE t \in 1..Len(input.sections) :
             ItemsBefore(t) < n /\ n <= ItemsBefore(t) + Len(input.sections[t].items)
  IN  input.sections[s].items[n - ItemsBefore(s)].key
\* what a digit key does in ask: confirm row n - 1, or nothing when out of range
AskDigit(key) ==
  LET n == DigitValue(key) IN
  IF 1 <= n /\ n <= Len(input.options) + 1
  THEN /\ pc' = "returned"
       /\ result' = (IF n = Len(input.options) + 1 THEN Index(-1) ELSE Index(n - 1))
  ELSE UNCHANGED <<pc, result, selected>>
\* what a digit key does in askDashboard when it is to select an item
DashDigit(key) ==
  LET n == DigitValue(key) IN
  IF 1 <= n /\ n <= ItemsBefore(Len(input.sections) + 1)
  THEN pc' = "returned" /\ result' = Item(NthItemKey(n))
  ELSE UNCHANGED <<pc, result, selected>>
\* key is the hotkey of an action of the dashboard, upper and lower case alike
IsHotkey(key) == \E i \in 1..Len(input.actions) : Lower(input.actions[i].key) = Lower(key)

\* C28: in ask and askDashboard a digit key n with 1 <= n <= number of rows confirms row
\* n - 1 at once: ask returns n - 1 (the exit sentinel for the synthetic last option),
\* askDashboard returns the key of the n-th item in section order; a digit out of that
\* range neither moves the highlight nor ends the call.
DigitConfirms ==
  [][\A key \in DigitKeys :
       /\ (prim = "ask" /\ AskKeyStep(key)) => AskDigit(key)
       /\ (prim = "dashboard" /\ DashKeyStep(key)) => DashDigit(key)]_vars
\* C28, amended: the same, except that in askDashboard a digit that is the hotkey of a
\* registered action returns that action and selects no item.
DigitConfirmsUnlessHotkey ==
  [][\A key \in DigitKeys :
       /\ (prim = "ask" /\ AskKeyStep(key)) => AskDigit(key)
       /\ (prim = "dashboard" /\ DashKeyStep(key)) =>
            IF IsHotkey(key)
            THEN pc' = "returned" /\ result'.kind = "action" /\ Lower(result'.val) = key
            ELSE DashDigit(key)]_vars
\* ask has returned the second row while the first one was highlighted: only the
\* digit 2 does that
DigitConfirmsUnlessHotkeyWitness ==
  /\ prim = "ask" /\ pc = "returned" /\ input.isTTY
  /\ result = Index(1) /\ selected = 0 /\ Len(input.options) = 2
\* the dashboard has returned its third item, the first of the second section
DigitConfirmsDashWitness ==
  /\ prim = "dashboard" /\ pc = "returned" /\ input.isTTY
  /\ Len(input.sections) = 2 /\ Len(input.sections[1].items) = 2
  /\ selected = 2 /\ result = Item(input.sections[2].items[1].key)

\* the rows of a dashboard whose item has the key k, counted from 0 in section order
RowsOf(k) ==
  {n - 1 : n \in {m \in 1..ItemsBefore(Len(input.sections) + 1) : NthItemKey(m) = k}}
\* the first of them
FirstRowOf(k) == CHOOSE r \in RowsOf(k) : \A o \in RowsOf(k) : r <= o
\* no two items of the dashboard have the same key
UniqueKeys ==
  \A m, n \in 1..ItemsBefore(Len(input.sections) + 1) :
    NthItemKey(m) = NthItemKey(n) => m = n

\* the row askDashboard is to start on
InitialRow ==
  IF input.opts.selected # "" /\ RowsOf(input.opts.selected) # {}
  THEN FirstRowOf(input.opts.selected) ELSE 0

InitialRowReturnedWitness ==
  /\ prim = "dashboard" /\ pc = "returned" /\ input.isTTY /\ UniqueKeys
  /\ result = Item("k") /\ selected = 2 /\ input.opts.selected = ""

\* the state of the editor that a Tab without a completion is to leave alone
EditorState ==
  <<buffer, cursor, compMatches, compPrefix, selectMode, selectIndex, pc, result, rawMode>>

\* C30: when Tab runs the completer and it returns none (a directory that cannot be
\* read or does not exist, or no entry that matches), the buffer, the cursor, the
\* stored matches and the mode stay as they are and the editor goes on reading keys.
TabWithoutCompletion ==
  (prim = "line" /\ pc = "loop" /\ ~stdinEnded /\ input.completer # "none"
     /\ Len(compMatches) <= 1
     /\ ~completer(Slice(buffer, 0, cursor)).found) =>
    /\ ENABLED (LineKeyStep(KeyTab) /\ UNCHANGED EditorState)
    /\ ~ENABLED (LineKeyStep(KeyTab) /\ ~UNCHANGED EditorState)
\* the selected directory c/b/ cannot be read: Tab after it finds nothing
TabWithoutCompletionWitness ==
  /\ prim = "line" /\ pc = "loop" /\ ~selectMode /\ compMatches = << >>
  /\ buffer = <<"c", "/", "b", "/">> /\ cursor = 4
  /\ ~readdirSync(buffer).ok /\ ~completer(buffer).found
\* nothing in the working directory starts with cc
TabNoMatchWitness ==
  /\ prim = "line" /\ pc = "loop" /\ ~selectMode /\ compMatches = << >>
  /\ buffer = <<"c", "c">> /\ cursor = 2
  /\ readdirSync(<<".">>).ok /\ ~completer(buffer).found

\* the text before the cursor, split at its last "/"
TypedDir == SubSeq(Slice(buffer, 0, cursor), 1, LastSlash(Slice(buffer, 0, cursor)))
TypedName ==
  SubSeq(Slice(buffer, 0, cursor), LastSlash(Slice(buffer, 0, cursor)) + 1, cursor)
\* the listing of the typed directory and its entries that start with the typed name
TypedListing == readdirSync(IF TypedDir = << >> THEN <<".">> ELSE TypedDir)
TypedEntries == {e \in TypedListing.entries : StartsWith(e.name, TypedName)}
\* a match as the completer returns it, and back
Marked(e) == e.name \o (IF e.isDir THEN <<"/">> ELSE << >>)
IsDirMatch(m) == m[Len(m)] = "/"
NameOfMatch(m) == IF IsDirMatch(m) THEN SubSeq(m, 1, Len(m) - 1) ELSE m
\* the matches of a result are in order: directories first, by name within each group
MatchesOrdered(matches) ==
  \A i, j \in 1..Len(matches) :
    i < j => IF IsDirMatch(matches[i]) # IsDirMatch(matches[j])
             THEN IsDirMatch(matches[i])
             ELSE NameLess(NameOfMatch(matches[i]), NameOfMatch(matches[j]))

\* C31: for a directory that can be read the completer returns exactly the entries
\* whose name starts with the typed name, directories first and in order of name within
\* each group, directories marked with "/"; completed is the typed directory followed
\* by the longest common prefix of the matches.
CompleterListsMatchingEntries ==
  (prim = "line" /\ pc = "loop" /\ TypedListing.ok) =>
    LET r == completer(Slice(buffer, 0, cursor)) IN
    /\ r.found <=> TypedEntries # {}
    /\ r.found =>
         /\ Len(r.matches) = Cardinality(TypedEntries)
         /\ {r.matches[i] : i \in 1..Len(r.matches)} = {Marked(e) : e \in TypedEntries}
         /\ MatchesOrdered(r.matches)
         /\ r.prefix = TypedDir
         /\ r.completed = TypedDir \o LongestCommonPrefix(r.matches)
\* the same for the file completer alone
FileCompleterListsMatchingEntries ==
  input.completer = "file" => CompleterListsMatchingEntries

\* the choice a line of the fallback loop stands for: the number it starts with once
\* the spaces around it are dropped, 0 when it starts with none
LineChoice(line) ==
  IF line \in {"1", " 1 "} THEN 1
  ELSE IF line \in {"2", "2x"} THEN 2
  ELSE IF line = "3" THEN 3
  ELSE IF line = "4" THEN 4
  ELSE 0
\* what ask returns for row n (from 1): its index, -1 for the synthetic last row
ChoiceResult(n) == Index(IF n = Len(input.options) + 1 THEN -1 ELSE n - 1)

\* C32: in the fallback loop of ask a line that does not give a number from 1 to the
\* number of rows neither returns nor ends the call: the loop asks again, whatever was
\* entered before; a line that gives n returns n - 1, or -1 when n is the synthetic
\* last row, as Enter on row n does in the key loop.
AskFallbackReprompts ==
  (prim = "ask" /\ pc = "fallback" /\ ~stdinEnded) =>
    \A line \in AskLines \ {LineNull} :
      LET n == LineChoice(line) IN
      IF n \in 1..(Len(input.options) + 1)
      THEN /\ ENABLED (AskFallbackLine(line) /\ pc' = "returned" /\ result' = ChoiceResult(n))
           /\ ~ENABLED (AskFallbackLine(line)
                          /\ ~(pc' = "returned" /\ result' = ChoiceResult(n)))
      ELSE /\ ENABLED (AskFallbackLine(line) /\ UNCHANGED <<pc, result, rawMode>>)
           /\ ~ENABLED (AskFallbackLine(line) /\ ~UNCHANGED <<pc, result, rawMode>>)
\* without a terminal and with one option, the line for the second row returned -1
AskFallbackRepromptsWitness ==
  /\ prim = "ask" /\ ~input.isTTY /\ Len(input.options) = 1
  /\ pc = "returned" /\ result = Index(-1) /\ ~rawMode
\* and the line for the first row returned 0
AskFallbackFirstRowWitness ==
  /\ prim = "ask" /\ ~input.isTTY /\ Len(input.options) = 1
  /\ pc = "returned" /\ result = Index(0)

\* what truncating s to maxLen is to give
Truncated(s, maxLen) ==
  IF Len(s) <= maxLen THEN s
  ELSE IF maxLen <= 0 THEN << >>
  ELSE SubSeq(s, 1, maxLen - 1) \o <<Ellipsis>>

\* C33: truncate(s, maxLen) is s when s has at most maxLen characters, empty when
\* maxLen <= 0, and otherwise the first maxLen - 1 characters of s and one ellipsis;
\* it is never longer than max(0, maxLen).
TruncateFits ==
  /\ (prim = "render" /\ pc = "row") =>
       /\ result = Text(Truncated(input.description, descAvail))
       /\ Len(result.val) <= Max(0, descAvail)
  /\ (prim = "render" /\ pc = "returned") =>
       /\ result = Text(Truncated(input.help, helpAvail))
       /\ Len(result.val) <= Max(0, helpAvail)
\* a description of three characters cut to one character and the ellipsis
TruncateFitsWitness ==
  /\ prim = "render" /\ pc = "row" /\ descAvail = 2
  /\ input.description = <<"a", "b", "a">> /\ result = Text(<<"a", Ellipsis>>)
\* a help line cut to the ellipsis alone; nothing shown when there is no room;
\* a text that fits shown whole
TruncateToEllipsisWitness ==
  /\ prim = "render" /\ pc = "returned" /\ helpAvail = 1
  /\ input.help = <<"a", "b">> /\ result = Text(<<Ellipsis>>)
TruncateNoRoomWitness ==
  /\ prim = "render" /\ pc = "row" /\ descAvail < 0
  /\ input.description # << >> /\ result = Text(<< >>)
TruncateWholeWitness ==
  /\ prim = "render" /\ pc = "row" /\ descAvail = 3
  /\ Len(input.description) = 3 /\ result = Text(input.description)

\* C34: in the line editor, whenever select mode is on, the buffer is the completion
\* prefix followed by the highlighted match and the cursor is at its end.
SelectModeShowsSelection ==
  (prim = "line" /\ selectMode) =>
    /\ selectIndex + 1 \in 1..Len(compMatches)
    /\ buffer = compPrefix \o compMatches[selectIndex + 1]
    /\ cursor = Len(buffer)
\* the second entry of the grid of c/ is highlighted: the buffer is c/a
SelectModeShowsSelectionWitness ==
  /\ prim = "line" /\ pc = "loop" /\ selectMode /\ selectIndex = 1
  /\ compPrefix = <<"c", "/">> /\ compMatches = << <<"b", "/">>, <<"a">> >>
  /\ buffer = <<"c", "/", "a">> /\ cursor = 3

\* C35: in askMultiSelect, whenever select mode is on the filtered list is not empty
\* and selectIndex is an index of it; no key enters select mode while the filtered list
\* is empty; and a key that changes the filter or the filtered list ends with select
\* mode off.
SelectModeOnGrid ==
  /\ []((prim = "multi" /\ selectMode) =>
          (filtered # << >> /\ selectIndex \in 0..(Len(filtered) - 1)))
  /\ [][prim = "multi" =>
          /\ (filtered = << >> /\ ~selectMode) => ~selectMode'
          /\ (filter' # filter \/ filtered' # filtered) => ~selectMode']_vars
\* the last entry of a grid of three is highlighted
SelectModeOnGridWitness ==
  /\ prim = "multi" /\ pc = "loop" /\ selectMode
  /\ Len(filtered) = 3 /\ selectIndex = 2
\* and a filter that no item contains leaves an empty grid, in typing mode
SelectModeEmptyGridWitness ==
  /\ prim = "multi" /\ pc = "loop" /\ ~selectMode
  /\ filter # << >> /\ filtered = << >> /\ input.items # << >>

\* C36: askMultiSelect adds and removes only elements that are items: an element of
\* the caller's set that is no item stays in the set at every step, and so to the return.
ForeignElementsKept ==
  [][prim = "multi" =>
       \A e \in selectedSet \ Range(input.items) : e \in selectedSet']_vars
\* the same without the toggle-all of typing mode on a set that holds every item
ForeignElementsKeptButClear ==
  [][(prim = "multi" /\ ~(\E key \in {"a", "A"} : MultiToggleAll(key)
                            /\ Range(input.items) \subseteq selectedSet)) =>
       \A e \in selectedSet \ Range(input.items) : e \in selectedSet']_vars

\* one turn of the key loop of the line editor or of askMultiSelect on Escape
EscapeStep == LineKeyStep(KeyEscape) \/ MultiKeyStep(KeyEscape)
\* what Escape is to return
EscapeResult == IF prim = "line" THEN Null ELSE Void
\* the next Escape ends the call, and nothing else can come of it
EscapeEnds ==
  /\ ENABLED (EscapeStep /\ pc' = "returned" /\ result' = EscapeResult /\ ~rawMode')
  /\ ~ENABLED (EscapeStep /\ ~(pc' = "returned" /\ result' = EscapeResult /\ ~rawMode'))
\* a grid is in use: select mode, or the matches of the line editor are shown
GridActive == selectMode \/ (prim = "line" /\ compMatches # << >>)

\* C37: in the line editor and in askMultiSelect two Escape presses in a row end the
\* call from every state of the key loop: with select mode on or a completion grid
\* shown the first Escape leaves it and the loop goes on, the next Escape returns
\* (null from the line editor); with no grid in use the first Escape returns already;
\* whatever the buffer or the filter holds.
TwoEscapesEnd ==
  /\ []((prim \in {"line", "multi"} /\ pc = "loop" /\ ~stdinEnded /\ ~GridActive) => EscapeEnds)
  /\ [][(prim \in {"line", "multi"} /\ EscapeStep /\ GridActive) =>
          (pc' = "loop" /\ ~GridActive' /\ EscapeEnds')]_vars
\* Escape has returned null from the line editor with text in the buffer
TwoEscapesEndWitness ==
  /\ prim = "line" /\ pc = "returned" /\ result = Null /\ buffer # << >>
\* Escape has ended askMultiSelect with a filter typed
TwoEscapesEndMultiWitness ==
  /\ prim = "multi" /\ pc = "returned" /\ result = Void /\ filter # << >> /\ input.isTTY
\* the first of two: select mode of the line editor left, the typed text back
TwoEscapesFirstWitness ==
  /\ prim = "line" /\ pc = "loop" /\ ~selectMode /\ compMatches = << >>
  /\ buffer = <<"c">> /\ savedBuffer = <<"c">> /\ cursor = 1

\* one turn of the key loop of askMultiSelect on Backspace
BackspaceStep == \E key \in KeyBackspace : MultiKeyStep(key)
\* the presses of Backspace still needed before the one that exits
BackspaceRank == (IF selectMode THEN 1 ELSE 0) + Len(filter)
\* the filter without the character before the cursor
FilterCut == SubSeq(filter, 1, filterCursor - 1) \o SubSeq(filter, filterCursor + 1, Len(filter))

\* C38: in askMultiSelect, from every state of the key loop, each Backspace either
\* ends the prompt or brings it nearer to its end: select mode is left, then the
\* filter loses a character with every press, and Backspace on the empty filter exits.
BackspacesEnd ==
  (prim = "multi" /\ pc = "loop" /\ ~stdinEnded) =>
    /\ ENABLED BackspaceStep
    /\ ~ENABLED (BackspaceStep /\ ~(pc' = "returned" \/ BackspaceRank' < BackspaceRank))
\* as the code has it: Backspace leaves select mode, exits on the empty filter, deletes
\* the character before the filter cursor, and does nothing when the cursor is at the
\* start of a filter that is not empty; so with the cursor at the end of the filter
\* each press ends the prompt or brings it nearer to its end, the cursor still at the end.
BackspacesEndFromFilterEnd ==
  (prim = "multi" /\ pc = "loop" /\ ~stdinEnded) =>
    /\ ENABLED BackspaceStep
    /\ ~ENABLED (BackspaceStep /\
         ~(IF selectMode
           THEN pc' = "loop" /\ ~selectMode' /\ filter' = filter /\ filterCursor' = filterCursor
           ELSE IF filter = << >>
           THEN pc' = "returned" /\ result' = Void /\ ~rawMode'
           ELSE IF filterCursor > 0
           THEN /\ pc' = "loop" /\ ~selectMode'
                /\ filter' = FilterCut /\ filterCursor' = filterCursor - 1
                /\ filtered' = getFiltered(FilterCut)
           ELSE UNCHANGED <<pc, result, selectMode, filter, filterCursor, filtered>>))
    /\ filterCursor = Len(filter) =>
         ~ENABLED (BackspaceStep /\
            ~(pc' = "returned"
              \/ (BackspaceRank' < BackspaceRank /\ filterCursor' = Len(filter'))))
\* Backspace on the empty filter has ended the prompt
BackspacesEndFromFilterEndWitness ==
  /\ prim = "multi" /\ input.isTTY /\ input.items # << >>
  /\ pc = "returned" /\ result = Void /\ filter = << >> /\ ~rawMode
\* a filter with the cursor moved to its start: Backspace changes nothing here
BackspaceStuckWitness ==
  /\ prim = "multi" /\ pc = "loop" /\ ~stdinEnded /\ ~selectMode
  /\ filter # << >> /\ filterCursor = 0
  /\ ~ENABLED (BackspaceStep /\ ~UNCHANGED <<pc, filter, filterCursor, selectMode>>)

\* the key toggles: Space, Enter, a or A in select mode, a or A in typing mode with the
\* empty filter
IsToggleKey(key) ==
  \/ selectMode /\ key \in {" ", "a", "A"} \cup KeyEnter
  \/ ~selectMode /\ filter = << >> /\ key \in {"a", "A"}

\* the keys that navigate or edit the filter, when they are no toggle
FilterKeys ==
  KeyArrows \cup KeyEnter \cup KeyHome \cup KeyEnd \cup KeyBackspace \cup FilterChars
    \cup {KeyTab, KeyShiftTab, KeyDelete, KeyCtrlU, KeyEscape}

\* C39: in askMultiSelect no key but a toggle changes the caller's set, and a key that
\* navigates or edits the filter does not call onChange; a toggle key changes the set
\* and then calls onChange, when there is one, exactly once and with that set.
OnChangePerToggle ==
  [][prim = "multi" =>
       /\ \A key \in {" ", "a", "A"} \cup KeyEnter :
            (IsToggleKey(key) /\ MultiKeyStep(key)) =>
              /\ fired' = (IF input.onChange THEN 1 ELSE 0)
              /\ input.onChange => changeArg' = selectedSet'
              /\ selectedSet' # selectedSet
       /\ (selectedSet' # selectedSet \/ fired' # 0) =>
            \A key \in MultiKeys :
              (~IsToggleKey(key) /\ MultiKeyStep(key)) =>
                /\ selectedSet' = selectedSet
                /\ key \in FilterKeys => fired' = 0]_vars
\* the last key toggled b: onChange was called once, with the caller's set holding b
\* next to the element it had at the start
OnChangePerToggleWitness ==
  /\ prim = "multi" /\ pc = "loop" /\ input.onChange /\ selectMode
  /\ fired = 1 /\ changeArg = {<<"z">>, <<"b">>} /\ selectedSet = changeArg
\* a filter typed holding "a" and a space: neither toggled anything
OnChangeNotOnTypingWitness ==
  /\ prim = "multi" /\ pc = "loop" /\ input.onChange
  /\ filter = <<"a", " ">> /\ fired = 0 /\ selectedSet = {<<"z">>}

====
